---------------------------- MODULE Spec2Model ----------------------------
(***************************************************************************)
(* ovpn-dco data channel: the AEAD transform (ovpn_aead_encrypt,           *)
(* ovpn_aead_decrypt), the key slot life cycle and the peer bind swap      *)
(* (ovpn_bind_reset), as found in src/drivers/net/ovpn-dco/stats.h.        *)
(*                                                                         *)
(* Packet buffers are byte sequences.  An sk_buff is a linear buffer with  *)
(* a data index, as in the kernel: __skb_push moves the index towards the  *)
(* head.  A scatterlist is a sequence of [ptr, len] views of the buffer.   *)
(* The kernel AEAD (gcm(aes)) is replaced by a keyed stream transform and  *)
(* a keyed checksum over (iv, associated data, ciphertext) that changes    *)
(* whenever a single byte of any of them changes.                          *)
(***************************************************************************)
EXTENDS Integers, Sequences, FiniteSets, TLC

(***************************************************************************)
(* Bounds of the model.                                                    *)
(***************************************************************************)
\* number of concurrent packet-processing workers
NWorkers == 2
\* transmit counter value at which the id space is exhausted (2^32 scaled)
PktidMax == 3
\* width W of the replay window (scaled)
ReplayWindow == 2
\* longest plaintext, in bytes
MaxLen == 1
\* number of key slots the peer can create over its life
MaxSlots == 2

(***************************************************************************)
(* Protocol constants.                                                     *)
(***************************************************************************)
OVPN_OP_SIZE_V2 == 4
OVPN_OP_SIZE_V1 == 1
NONCE_WIRE_SIZE == 4
NONCE_SIZE == 12
OVPN_DATA_V1 == 6
OVPN_DATA_V2 == 9
OVPN_OPCODE_SHIFT == 3
auth_tag_size == 16
EXPECTED_IV_SIZE == 12

\* errno values returned by the transform
EINVAL == 22
ENOBUFS == 105
ENOSPC == 28
ENOMEM == 12
EBADMSG == 74
ERANGE == 34
EEXIST == 17
EAFNOSUPPORT == 97
EOPNOTSUPP == 95

\* a sequence given as a function, as the tuple of its values
AsSeq(f) == f \o << >>

Zeros(n) == AsSeq([i \in 1..n |-> 0])

RECURSIVE WSumFrom(_, _)
WSumFrom(x, i) ==
    IF i > Len(x) THEN 0 ELSE (2 * i - 1) * x[i] + WSumFrom(x, i + 1)

\* position-weighted byte sum of x, with the odd weights 1, 3, 5, ...
WSum(x) == WSumFrom(x, 1)

RECURSIVE BSumFrom(_, _)
BSumFrom(x, i) == IF i > Len(x) THEN 0 ELSE x[i] + BSumFrom(x, i + 1)

BSum(x) == BSumFrom(x, 1)

(***************************************************************************)
(* Byte order conversions.  A 32-bit word on the wire is four bytes, most  *)
(* significant first.  TLC integers stop at 2^31-1: Ntohl is exact for     *)
(* every word below 2^31, which covers every packet id the transmit side   *)
(* can issue within PktidMax.                                              *)
(***************************************************************************)
Htonl(v) ==
    << (v \div 16777216) % 256, (v \div 65536) % 256, (v \div 256) % 256, v % 256 >>

Ntohl(b) == b[1] * 16777216 + b[2] * 65536 + b[3] * 256 + b[4]

(***************************************************************************)
(* The cipher.  crypto_aead_encrypt / crypto_aead_decrypt work on the      *)
(* byte stream the scatterlist describes: assoclen bytes of associated     *)
(* data, then the text, then the tag.                                      *)
(***************************************************************************)
KeyStream(key, iv, j) == (key * 17 + BSum(iv) * 3 + j * 5) % 256

StreamEnc(key, iv, pt) ==
    AsSeq([j \in 1..Len(pt) |-> (pt[j] + KeyStream(key, iv, j)) % 256])

StreamDec(key, iv, ct) ==
    AsSeq([j \in 1..Len(ct) |-> (ct[j] + 256 - KeyStream(key, iv, j)) % 256])

MacSum(key, iv, ad, ct) ==
    key * 1009 + WSum(iv \o <<Len(ad)>> \o ad \o <<Len(ct)>> \o ct)

AeadTag(key, iv, ad, ct, tagsz) ==
    LET m == MacSum(key, iv, ad, ct)
    IN  AsSeq([i \in 1..tagsz |->
                 IF i = 1 THEN (m \div 65536) % 256
                 ELSE IF i = 2 THEN (m \div 256) % 256
                 ELSE IF i = 3 THEN m % 256
                 ELSE (m + i) % 256])


(***************************************************************************)
(* sk_buff and scatterlist.                                                *)
(***************************************************************************)
SkbLen(skb) == Len(skb.buf) - skb.data + 1

SkbData(skb) == SubSeq(skb.buf, skb.data, Len(skb.buf))

skb_push(skb, n) == [skb EXCEPT !.data = @ - n]

skb_pull(skb, n) == [skb EXCEPT !.data = @ + n]

\* an skb holding payload pt behind room bytes of headroom
SkbOf(pt, room) == [buf |-> Zeros(room) \o pt, data |-> room + 1]

\* store bytes at absolute position ptr of the buffer
BufWrite(buf, ptr, bytes) ==
    AsSeq([p \in 1..Len(buf) |->
             IF p >= ptr /\ p < ptr + Len(bytes) THEN bytes[p - ptr + 1]
             ELSE buf[p]])

sg_set_buf(ptr, len) == [ptr |-> ptr, len |-> len]

RECURSIVE SgIdxFrom(_, _)
\* the buffer positions a scatterlist walks from its entry k on, in order
SgIdxFrom(sg, k) ==
    IF k > Len(sg) THEN << >>
    ELSE AsSeq([i \in 1..sg[k].len |-> sg[k].ptr + i - 1]) \o SgIdxFrom(sg, k + 1)

SgIdx(sg) == SgIdxFrom(sg, 1)

SgRead(buf, idx, from, n) == AsSeq([i \in 1..n |-> buf[idx[from + i - 1]]])

RECURSIVE SgWriteFrom(_, _, _, _, _)
SgWriteFrom(buf, idx, from, bytes, i) ==
    IF i > Len(bytes) THEN buf
    ELSE SgWriteFrom([buf EXCEPT ![idx[from + i - 1]] = bytes[i]],
                     idx, from, bytes, i + 1)

\* store bytes at stream positions from.. of the scatterlist walk idx
SgWrite(buf, idx, from, bytes) == SgWriteFrom(buf, idx, from, bytes, 1)

crypto_aead_authsize(tfm) == tfm.authsize

\* in-place encryption of req over buf: the text becomes ciphertext, the tag
\* is stored in the cryptlen..cryptlen+authsize bytes that follow it
crypto_aead_encrypt(tfm, req, buf) ==
    LET idx == SgIdx(req.sg)
        ad  == SgRead(buf, idx, 1, req.assoclen)
        pt  == SgRead(buf, idx, req.assoclen + 1, req.cryptlen)
        ct  == StreamEnc(tfm.key, req.iv, pt)
        tag == AeadTag(tfm.key, req.iv, ad, ct, tfm.authsize)
    IN  SgWrite(buf, idx, req.assoclen + 1, ct \o tag)

\* in-place decryption of req over buf; cryptlen counts the tag
crypto_aead_decrypt(tfm, req, buf) ==
    LET idx == SgIdx(req.sg)
        n   == req.cryptlen - tfm.authsize
        ad  == SgRead(buf, idx, 1, req.assoclen)
        ct  == SgRead(buf, idx, req.assoclen + 1, n)
        tag == SgRead(buf, idx, req.assoclen + n + 1, tfm.authsize)
    IN  IF tag = AeadTag(tfm.key, req.iv, ad, ct, tfm.authsize)
        THEN [ret |-> 0,
              buf |-> SgWrite(buf, idx, req.assoclen + 1,
                              StreamDec(tfm.key, req.iv, ct))]
        ELSE [ret |-> -EBADMSG, buf |-> buf]

(***************************************************************************)
(* Wire header (proto.h) and nonce (pktid.h).                              *)
(***************************************************************************)
\* the 32-bit op word in network byte order: opcode|key-id, then the peer id
ovpn_op32_compose(opcode, key_id, peer_id) ==
    << opcode * (2 ^ OVPN_OPCODE_SHIFT) + key_id,
       (peer_id \div 65536) % 256, (peer_id \div 256) % 256, peer_id % 256 >>

\* opcode of an op word held as its four wire bytes
ovpn_opcode_extract(op) == op[1] \div (2 ^ OVPN_OPCODE_SHIFT)

\* write packet id and nonce tail over the destination nonce
ovpn_pktid_aead_write(pktid, nt, dest) ==
    LET id == Htonl(pktid)
    IN  AsSeq([i \in 1..Len(dest) |->
                 IF i <= NONCE_WIRE_SIZE THEN id[i]
                 ELSE IF i - NONCE_WIRE_SIZE <= Len(nt) THEN nt[i - NONCE_WIRE_SIZE]
                 ELSE dest[i]])

(***************************************************************************)
(* Packet id state (pktid.h).                                              *)
(***************************************************************************)
ovpn_pktid_xmit_init == [seq_num |-> 0]

ovpn_pktid_recv_init ==
    [highest_seen |-> 0, window |-> [i \in 0..(ReplayWindow - 1) |-> FALSE]]

\* fetch-and-add on the transmit counter, refused once the id space is used up
ovpn_pktid_xmit_next(pid) ==
    IF pid.seq_num >= PktidMax
    THEN [ret |-> -ERANGE, set |-> FALSE, pktid |-> 0, pid |-> pid]
    ELSE [ret |-> 0, set |-> TRUE, pktid |-> pid.seq_num,
          pid |-> [pid EXCEPT !.seq_num = @ + 1]]

\* a validator that never looks at the marks of the window
ovpn_pktid_recv_unmarked(pr, pkt_id) ==
    IF pkt_id > pr.highest_seen
    THEN [ret |-> 0, pr |-> [pr EXCEPT !.highest_seen = pkt_id]]
    ELSE IF pr.highest_seen - pkt_id < ReplayWindow
    THEN [ret |-> 0, pr |-> pr]
    ELSE [ret |-> -EEXIST, pr |-> pr]

\* a validator that moves highest_seen without sliding the marks
ovpn_pktid_recv_no_slide(pr, pkt_id) ==
    IF pkt_id > pr.highest_seen
    THEN [ret |-> 0,
          pr  |-> [highest_seen |-> pkt_id, window |-> [pr.window EXCEPT ![0] = TRUE]]]
    ELSE LET d == pr.highest_seen - pkt_id
         IN  IF d < ReplayWindow /\ ~pr.window[d]
             THEN [ret |-> 0, pr |-> [pr EXCEPT !.window[d] = TRUE]]
             ELSE [ret |-> -EEXIST, pr |-> pr]

\* a validator whose store of a new highest id loses the mark of that id
ovpn_pktid_recv_lost_mark(pr, pkt_id) ==
    IF pkt_id > pr.highest_seen
    THEN LET d == pkt_id - pr.highest_seen
         IN  [ret |-> 0,
              pr  |-> [highest_seen |-> pkt_id,
                       window |-> [i \in 0..(ReplayWindow - 1) |->
                                     IF i >= d /\ i > 0 THEN pr.window[i - d]
                                     ELSE FALSE]]]
    ELSE LET d == pr.highest_seen - pkt_id
         IN  IF d < ReplayWindow /\ ~pr.window[d]
             THEN [ret |-> 0, pr |-> [pr EXCEPT !.window[d] = TRUE]]
             ELSE [ret |-> -EEXIST, pr |-> pr]

\* receive validator; bit i of the window stands for id highest_seen - i
ovpn_pktid_recv(pr, pkt_id) ==
    IF pkt_id > pr.highest_seen
    THEN LET d == pkt_id - pr.highest_seen
         IN  [ret |-> 0,
              pr  |-> [highest_seen |-> pkt_id,
                       window |-> [i \in 0..(ReplayWindow - 1) |->
                                     IF i = 0 THEN TRUE
                                     ELSE IF i >= d THEN pr.window[i - d]
                                     ELSE FALSE]]]
    ELSE LET d == pr.highest_seen - pkt_id
         IN  IF d < ReplayWindow /\ ~pr.window[d]
             THEN [ret |-> 0, pr |-> [pr EXCEPT !.window[d] = TRUE]]
             ELSE [ret |-> -EEXIST, pr |-> pr]

(***************************************************************************)
(* ovpn_aead_encrypt.  The function runs in two steps of a worker: up to   *)
(* the submission of the cipher request (EncBegin), and from its           *)
(* completion to the return (EncComplete).                                 *)
(***************************************************************************)
ovpn_aead_encap_overhead(ks) ==
    OVPN_OP_SIZE_V2 + 4 + crypto_aead_authsize(ks.encrypt)

\* outcomes of the buffer and allocation calls that precede the packet id
EncEnv == {"ok", "nobufs", "cow", "nospc", "nomem", "sg"}

EncEnvRet(env) ==
    CASE env = "nobufs" -> -ENOBUFS
      [] env = "cow"    -> -ENOMEM
      [] env = "nospc"  -> -ENOSPC
      [] env = "nomem"  -> -ENOMEM
      [] env = "sg"     -> -EINVAL
      [] OTHER          -> 0

\* room for the tag taken behind the payload, at the tail of the buffer
ovpn_aead_encrypt_push_trailing(ks, skb) ==
    LET tag_size == crypto_aead_authsize(ks.encrypt)
        sgp  == sg_set_buf(skb.data, SkbLen(skb))
        skb1 == [skb EXCEPT !.buf = @ \o Zeros(tag_size)]
        sgt  == sg_set_buf(skb.data + SkbLen(skb), tag_size)
        skb2 == skb_push(skb1, NONCE_WIRE_SIZE)
    IN  [skb |-> skb2, sgp |-> sgp, sgt |-> sgt]

\* lines 134-141: payload view, then room for the tag and for the wire packet id
ovpn_aead_encrypt_push(ks, skb) ==
    LET tag_size == crypto_aead_authsize(ks.encrypt)
        sgp  == sg_set_buf(skb.data, SkbLen(skb))
        skb1 == skb_push(skb, tag_size)
        sgt  == sg_set_buf(skb1.data, tag_size)
        skb2 == skb_push(skb1, NONCE_WIRE_SIZE)
    IN  [skb |-> skb2, sgp |-> sgp, sgt |-> sgt]

\* every failure of ovpn_pktid_xmit_next taken for the wrap warning
xmit_error_is_warning(ret) == FALSE

\* lines 143-147: whether a failure of ovpn_pktid_xmit_next ends the call
xmit_error_is_fatal(ret) == ret /= -1

\* a wire packet id that was never copied out of the nonce
enc_wire_nonce_unset(iv) == Zeros(NONCE_WIRE_SIZE)

\* line 152: the head of the nonce is the wire packet id
enc_wire_nonce(iv) == SubSeq(iv, 1, NONCE_WIRE_SIZE)

\* a nonce whose tail is left as get_random_bytes filled it
enc_nonce_random_tail(pktid, nt, rnd) ==
    Htonl(pktid) \o SubSeq(rnd, NONCE_WIRE_SIZE + 1, Len(rnd))

\* lines 150-151: the nonce buffer is filled with random bytes, then written
\* over with the packet id and the transmit nonce tail
enc_nonce(pktid, nt, rnd) == ovpn_pktid_aead_write(pktid, nt, rnd)

\* nonce, wire packet id, op word, associated data and the cipher request
ovpn_aead_encrypt_fill(ks, st, pktid, rnd) ==
    LET head_size == ovpn_aead_encap_overhead(ks)
        iv   == enc_nonce(pktid, ks.nonce_tail_xmit, rnd)
        b1   == BufWrite(st.skb.buf, st.skb.data, enc_wire_nonce(iv))
        op   == ovpn_op32_compose(OVPN_DATA_V2, ks.key_id, ks.remote_peer_id)
        skb3 == skb_push([st.skb EXCEPT !.buf = b1], OVPN_OP_SIZE_V2)
        skb4 == [skb3 EXCEPT !.buf = BufWrite(b1, skb3.data, op)]
        sga  == sg_set_buf(skb4.data, OVPN_OP_SIZE_V2 + NONCE_WIRE_SIZE)
    IN  [skb |-> skb4,
         req |-> [sg |-> <<sga, st.sgp, st.sgt>>,
                  cryptlen |-> SkbLen(skb4) - head_size,
                  assoclen |-> OVPN_OP_SIZE_V2 + NONCE_WIRE_SIZE,
                  iv |-> iv]]

NoReq == [sg |-> << >>, cryptlen |-> 0, assoclen |-> 0, iv |-> << >>]

\* a call that asks for its packet id first and checks the buffer afterwards
ovpn_aead_encrypt_begin_id_first(ks, skb, env, rnd, garbage) ==
    LET x == ovpn_pktid_xmit_next(ks.pid_xmit)
    IN  IF env /= "ok"
        THEN [ret |-> EncEnvRet(env), wait |-> FALSE, skb |-> skb, req |-> NoReq,
              pid |-> x.pid, took |-> x.set, pktid |-> x.pktid]
        ELSE LET st == ovpn_aead_encrypt_push(ks, skb)
                 id == IF x.set THEN x.pktid ELSE garbage
             IN  IF x.ret < 0 /\ xmit_error_is_fatal(x.ret)
                 THEN [ret |-> x.ret, wait |-> FALSE, skb |-> st.skb, req |-> NoReq,
                       pid |-> x.pid, took |-> x.set, pktid |-> 0]
                 ELSE LET f == ovpn_aead_encrypt_fill(ks, st, id, rnd)
                      IN  [ret |-> 0, wait |-> TRUE, skb |-> f.skb, req |-> f.req,
                           pid |-> x.pid, took |-> x.set, pktid |-> id]

\* lines 101-169: the result of the call up to the cipher request.
\* pid is the slot's transmit state, garbage the value an unset pktid holds.
ovpn_aead_encrypt_begin(ks, skb, env, rnd, garbage) ==
    IF env /= "ok"
    THEN [ret |-> EncEnvRet(env), wait |-> FALSE, skb |-> skb, req |-> NoReq,
          pid |-> ks.pid_xmit, took |-> FALSE, pktid |-> 0]
    ELSE LET st == ovpn_aead_encrypt_push(ks, skb)
             x  == ovpn_pktid_xmit_next(ks.pid_xmit)
             id == IF x.set THEN x.pktid ELSE garbage
         IN  IF x.ret < 0 /\ xmit_error_is_fatal(x.ret)
             THEN [ret |-> x.ret, wait |-> FALSE, skb |-> st.skb, req |-> NoReq,
                   pid |-> x.pid, took |-> x.set, pktid |-> 0]
             ELSE LET f == ovpn_aead_encrypt_fill(ks, st, id, rnd)
                  IN  [ret |-> 0, wait |-> TRUE, skb |-> f.skb, req |-> f.req,
                       pid |-> x.pid, took |-> x.set, pktid |-> id]

\* an exit path that hands the packet id back when the call failed
enc_exit_gives_id_back(pid, ret) ==
    IF ret < 0 THEN [pid EXCEPT !.seq_num = @ - 1] ELSE pid

\* lines 174-176: the exit path frees the request; the transmit counter of
\* the slot is as ovpn_pktid_xmit_next left it
enc_exit_pid(pid, ret) == pid

\* lines 172-176: the cipher result is the result of the call
ovpn_aead_encrypt_complete(ks, skb, req, cerr) ==
    IF cerr /= 0
    THEN [ret |-> cerr, skb |-> skb]
    ELSE [ret |-> 0,
          skb |-> [skb EXCEPT !.buf = crypto_aead_encrypt(ks.encrypt, req, skb.buf)]]

(***************************************************************************)
(* ovpn_aead_decrypt, in the same two steps.                               *)
(***************************************************************************)
DecEnv == {"ok", "pull", "cow", "nospc", "nomem", "sg"}

DecEnvRet(env) ==
    CASE env = "pull"   -> -EINVAL
      [] env = "cow"    -> -ENOMEM
      [] env = "nospc"  -> -ENOSPC
      [] env = "nomem"  -> -ENOMEM
      [] env = "sg"     -> -EINVAL
      [] OTHER          -> 0

\* the op word the receive path hands to ovpn_aead_decrypt: the first four
\* bytes of the packet (fewer when the packet is shorter)
OpOf(skb) ==
    LET d == SkbData(skb)
    IN  AsSeq([i \in 1..OVPN_OP_SIZE_V2 |-> IF i <= Len(d) THEN d[i] ELSE 0])

\* an opcode check that takes every opcode other than DATA_V2 for DATA_V1
dec_opsize_lenient(opcode) ==
    IF opcode = OVPN_DATA_V2 THEN OVPN_OP_SIZE_V2 ELSE OVPN_OP_SIZE_V1

\* lines 194-200: size of the op field, 0 for an opcode that is refused
dec_opsize(opcode) ==
    IF opcode = OVPN_DATA_V2 THEN OVPN_OP_SIZE_V2
    ELSE IF opcode = OVPN_DATA_V1 THEN OVPN_OP_SIZE_V1
    ELSE 0

\* an associated data view that starts at the op byte for both variants
dec_ad_sg_from_op(skb, opcode) ==
    IF opcode = OVPN_DATA_V1
    THEN sg_set_buf(skb.data, OVPN_OP_SIZE_V1 + NONCE_WIRE_SIZE)
    ELSE sg_set_buf(skb.data, OVPN_OP_SIZE_V2 + NONCE_WIRE_SIZE)

\* lines 228-235: where the associated data starts and how long its view is
dec_ad_sg(skb, opcode) ==
    IF opcode = OVPN_DATA_V1
    THEN sg_set_buf(skb.data + OVPN_OP_SIZE_V1, NONCE_WIRE_SIZE)
    ELSE sg_set_buf(skb.data, OVPN_OP_SIZE_V2 + NONCE_WIRE_SIZE)

\* lines 244-246: the tag sits right after the wire packet id
dec_tag_sg(skb, opsize, tag_size) ==
    sg_set_buf(skb.data + opsize + NONCE_WIRE_SIZE, tag_size)

\* an associated data length that leaves the op word out
dec_ad_len_nonce_only(opcode) == NONCE_WIRE_SIZE

\* lines 260-263
dec_ad_len(opcode) ==
    IF opcode = OVPN_DATA_V2 THEN NONCE_WIRE_SIZE + OVPN_OP_SIZE_V2
    ELSE NONCE_WIRE_SIZE

\* a size check that also refuses a packet without payload
dec_too_short_or_empty(payload_len) == payload_len <= 0

\* line 206: the payload length must not be negative
dec_too_short(payload_len) == payload_len < 0

\* lines 182-263: the result of the call up to the cipher request
ovpn_aead_decrypt_begin(ks, skb, op, env) ==
    LET tag_size == crypto_aead_authsize(ks.decrypt)
        opcode   == ovpn_opcode_extract(op)
        opsize   == dec_opsize(opcode)
        payload_offset == opsize + NONCE_WIRE_SIZE + tag_size
        payload_len    == SkbLen(skb) - payload_offset
        fail(r) == [ret |-> r, wait |-> FALSE, req |-> NoReq,
                    opsize |-> opsize, payload_offset |-> payload_offset]
    IN  IF opsize = 0
        THEN fail(-EINVAL)
        ELSE IF dec_too_short(payload_len) \/ env = "pull"
        THEN fail(-EINVAL)
        ELSE IF env /= "ok"
        THEN fail(DecEnvRet(env))
        ELSE LET sga == dec_ad_sg(skb, opcode)
                 sgp == sg_set_buf(skb.data + payload_offset, payload_len)
                 sgt == dec_tag_sg(skb, opsize, tag_size)
                 iv  == SubSeq(skb.buf, skb.data + opsize,
                               skb.data + opsize + NONCE_WIRE_SIZE - 1)
                        \o ks.nonce_tail_recv
             IN  [ret |-> 0, wait |-> TRUE,
                  req |-> [sg |-> <<sga, sgp, sgt>>,
                           cryptlen |-> payload_len + tag_size,
                           assoclen |-> dec_ad_len(opcode),
                           iv |-> iv],
                  opsize |-> opsize, payload_offset |-> payload_offset]

\* a cipher result nobody looks at
cipher_failure_ignored(ret) == FALSE

\* lines 267-268: a failed cipher request ends the call
cipher_failed(ret) == ret < 0

\* lines 266-281: cipher result, then the replay check, then the strip
ovpn_aead_decrypt_complete(ks, skb, req, opsize, payload_offset, cerr) ==
    LET c == IF cerr /= 0 THEN [ret |-> cerr, buf |-> skb.buf]
             ELSE crypto_aead_decrypt(ks.decrypt, req, skb.buf)
    IN  IF cipher_failed(c.ret)
        THEN [ret |-> c.ret, skb |-> skb, pr |-> ks.pid_recv, acc |-> FALSE, id |-> 0]
        ELSE LET skb1 == [skb EXCEPT !.buf = c.buf]
                 pid  == Ntohl(SubSeq(skb1.buf, skb1.data + opsize,
                                      skb1.data + opsize + NONCE_WIRE_SIZE - 1))
                 r    == ovpn_pktid_recv(ks.pid_recv, pid)
             IN  IF r.ret < 0
                 THEN [ret |-> r.ret, skb |-> skb1, pr |-> r.pr, acc |-> FALSE, id |-> pid]
                 ELSE [ret |-> r.ret, skb |-> skb_pull(skb1, payload_offset),
                       pr |-> r.pr, acc |-> TRUE, id |-> pid]

(***************************************************************************)
(* Key slots.                                                              *)
(***************************************************************************)
NONCE_TAIL_SIZE == NONCE_SIZE - NONCE_WIRE_SIZE

NullAead == [key |-> 0, authsize |-> 0, state |-> "null", frees |-> 0]

\* crypto_free_aead: a no-op on NULL
crypto_free_aead(tfm) ==
    IF tfm.state = "null" THEN tfm
    ELSE [tfm EXCEPT !.state = "freed", !.frees = @ + 1]

\* lines 285-335, the path on which every cipher call succeeds
ovpn_aead_init(key) ==
    [key |-> key, authsize |-> auth_tag_size, state |-> "live", frees |-> 0]

NoSlot ==
    [mem |-> "none", kfrees |-> 0, refcount |-> 0,
     encrypt |-> NullAead, decrypt |-> NullAead,
     nonce_tail_xmit |-> << >>, nonce_tail_recv |-> << >>,
     key_id |-> 0, remote_peer_id |-> 0,
     pid_xmit |-> ovpn_pktid_xmit_init, pid_recv |-> ovpn_pktid_recv_init]

\* lines 347-419, the path that returns a slot; the caller sets remote_peer_id
ovpn_aead_crypto_key_slot_init(kc) ==
    [mem |-> "alloc", kfrees |-> 0, refcount |-> 1,
     encrypt |-> ovpn_aead_init(kc.ekey), decrypt |-> ovpn_aead_init(kc.dkey),
     nonce_tail_xmit |-> kc.etail, nonce_tail_recv |-> kc.dtail,
     key_id |-> kc.key_id, remote_peer_id |-> kc.peer_id,
     pid_xmit |-> ovpn_pktid_xmit_init, pid_recv |-> ovpn_pktid_recv_init]

\* lines 337-345
ovpn_aead_crypto_key_slot_destroy(ks) ==
    IF ks.mem = "none" THEN ks
    ELSE [ks EXCEPT !.encrypt = crypto_free_aead(@),
                    !.decrypt = crypto_free_aead(@),
                    !.mem = "freed", !.kfrees = @ + 1]

OVPN_CIPHER_ALG_NONE == 0
OVPN_CIPHER_ALG_AES_GCM == 1

\* crypto_aead_setkey of gcm(aes): an AES key of 16, 24 or 32 bytes
crypto_aead_setkey(tfm, key, keylen) ==
    IF keylen \in {16, 24, 32}
    THEN [ret |-> 0, tfm |-> [tfm EXCEPT !.key = key]]
    ELSE [ret |-> -EINVAL, tfm |-> tfm]

\* what the crypto API does to one ovpn_aead_init: every call succeeds,
\* crypto_alloc_aead fails, crypto_aead_setauthsize fails, or the cipher's
\* IV size is not EXPECTED_IV_SIZE
AeadEnv == {"ok", "alloc", "authsize", "ivsize"}

\* an error exit that leaves the cipher context allocated
ovpn_aead_init_error_leak(tfm, ret) ==
    [ret |-> ret, aead |-> NullAead, tfm |-> tfm]

\* lines 332-334; aead is the pointer returned (NULL stands for ERR_PTR),
\* tfm the context the call allocated, as the call leaves it
ovpn_aead_init_error(tfm, ret) ==
    [ret |-> ret, aead |-> NullAead, tfm |-> crypto_free_aead(tfm)]

\* lines 285-335, every path
ovpn_aead_init_ret(key, keylen, env) ==
    IF env = "alloc" THEN ovpn_aead_init_error(NullAead, -ENOMEM)
    ELSE LET aead == [key |-> 0, authsize |-> 0, state |-> "live", frees |-> 0]
             k == crypto_aead_setkey(aead, key, keylen)
             t == [k.tfm EXCEPT !.authsize = auth_tag_size]
         IN  IF k.ret /= 0 THEN ovpn_aead_init_error(k.tfm, k.ret)
             ELSE IF env = "authsize" THEN ovpn_aead_init_error(k.tfm, -EINVAL)
             ELSE IF env = "ivsize" THEN ovpn_aead_init_error(t, -EINVAL)
             ELSE [ret |-> 0, aead |-> t, tfm |-> t]

\* lines 416-418; ectx and dctx are the two cipher contexts as the call
\* leaves them
destroy_ks(kc, env, ret, ks, e, d) ==
    LET k == ovpn_aead_crypto_key_slot_destroy(ks)
    IN  [kc |-> kc, env |-> env, ret |-> ret, ks |-> k,
         ectx |-> IF ks.encrypt.state = "null" THEN e ELSE k.encrypt,
         dctx |-> IF ks.decrypt.state = "null" THEN d ELSE k.decrypt]

\* lines 421-434 and 347-419, every path; kmalloc leaves the packet-id
\* state and the nonce tails of the new slot undefined (env.garbage)
ovpn_aead_crypto_key_slot_new(kc, env) ==
    IF kc.cipher_alg /= OVPN_CIPHER_ALG_AES_GCM
    THEN [kc |-> kc, env |-> env, ret |-> -EOPNOTSUPP, ks |-> NoSlot,
          ectx |-> NullAead, dctx |-> NullAead]
    ELSE IF env.kmalloc = "nomem"
    THEN [kc |-> kc, env |-> env, ret |-> -ENOMEM, ks |-> NoSlot,
          ectx |-> NullAead, dctx |-> NullAead]
    ELSE
      LET ks0 == [NoSlot EXCEPT !.mem = "alloc", !.refcount = 1,
                                !.key_id = kc.key_id,
                                !.nonce_tail_xmit = <<env.garbage>>,
                                !.nonce_tail_recv = <<env.garbage>>,
                                !.pid_xmit = [seq_num |-> env.garbage],
                                !.pid_recv = [ovpn_pktid_recv_init
                                                EXCEPT !.highest_seen = env.garbage]]
          e == ovpn_aead_init_ret(kc.ekey, kc.ekey_size, env.enc)
          ks1 == [ks0 EXCEPT !.encrypt = e.aead]
          d == ovpn_aead_init_ret(kc.dkey, kc.dkey_size, env.dec)
          ks2 == [ks1 EXCEPT !.decrypt = d.aead]
      IN  IF e.ret < 0 THEN destroy_ks(kc, env, e.ret, ks1, e.tfm, NullAead)
          ELSE IF d.ret < 0 THEN destroy_ks(kc, env, d.ret, ks2, e.tfm, d.tfm)
          ELSE IF \/ NONCE_TAIL_SIZE /= Len(kc.etail)
                  \/ NONCE_TAIL_SIZE /= Len(kc.dtail)
          THEN destroy_ks(kc, env, -EINVAL, ks2, e.tfm, d.tfm)
          ELSE LET ks3 == [ks2 EXCEPT
                             !.nonce_tail_xmit = SubSeq(kc.etail, 1, NONCE_TAIL_SIZE),
                             !.nonce_tail_recv = SubSeq(kc.dtail, 1, NONCE_TAIL_SIZE),
                             !.pid_xmit = ovpn_pktid_xmit_init,
                             !.pid_recv = ovpn_pktid_recv_init]
               IN  [kc |-> kc, env |-> env, ret |-> 0, ks |-> ks3,
                    ectx |-> ks3.encrypt, dctx |-> ks3.decrypt]

\* crypto.h: kref_put with ovpn_aead_crypto_key_slot_destroy as release
ovpn_crypto_key_slot_put(ks) ==
    LET k == [ks EXCEPT !.refcount = @ - 1]
    IN  IF k.refcount = 0 THEN ovpn_aead_crypto_key_slot_destroy(k) ELSE k

NonceTail(n) == AsSeq([i \in 1..NONCE_TAIL_SIZE |-> n])

\* key configurations handed down by the control plane
KeyConfig(ek, dk, et, dt, kid) ==
    [cipher_alg |-> OVPN_CIPHER_ALG_AES_GCM,
     ekey |-> ek, ekey_size |-> 32, dkey |-> dk, dkey_size |-> 32,
     etail |-> NonceTail(et), dtail |-> NonceTail(dt),
     key_id |-> kid, peer_id |-> 66051]

\* the crypto API and the allocator serve every call
OkEnv == [kmalloc |-> "ok", enc |-> "ok", dec |-> "ok", garbage |-> 0]

\* the slot of the remote end: directions exchanged
Mirror(ks) ==
    [ks EXCEPT !.encrypt = ks.decrypt, !.decrypt = ks.encrypt,
               !.nonce_tail_xmit = ks.nonce_tail_recv,
               !.nonce_tail_recv = ks.nonce_tail_xmit]

Plaintexts == {AsSeq([i \in 1..n |-> 64 + i]) : n \in 0..MaxLen}

\* the wire packet ovpn_aead_encrypt builds for pt with packet id id
Encapsulate(ks, id, pt) ==
    LET k == [ks EXCEPT !.pid_xmit = [seq_num |-> id]]
        b == ovpn_aead_encrypt_begin(k, SkbOf(pt, ovpn_aead_encap_overhead(k)),
                                     "ok", Zeros(NONCE_SIZE), 0)
        c == ovpn_aead_encrypt_complete(k, b.skb, b.req, 0)
    IN  SkbData(c.skb)

(***************************************************************************)
(* State.                                                                  *)
(***************************************************************************)
VARIABLES
    slots,      \* the key slots ever allocated, by index
    primary,    \* index of the peer's primary slot
    wk,         \* per worker: position in the transform and its locals
    wire,       \* packets the encapsulations have produced, with their origin
    taken,      \* per slot: the packet ids in the order xmit_next issued them
    accepted,   \* per slot: how often each packet id passed the replay check
    binds,      \* the binds ever allocated, by index
    peer_bind,  \* peer->bind: index of the current bind, 0 for NULL
    rd,         \* per reader: position in its read-side section, bind captured
    bw,         \* the writer's position in ovpn_bind_reset
    rcu_cbs,    \* callbacks queued by call_rcu, with the readers each waits for
    kres        \* what the last ovpn_aead_crypto_key_slot_new returned and left

tvars == <<slots, primary, wk, wire, taken, accepted>>

bvars == <<binds, peer_bind, rd, bw, rcu_cbs>>

kvars == <<kres>>

vars == <<tvars, bvars, kvars>>

Workers == 1..NWorkers
SlotIds == 1..MaxSlots

NoSkb == [buf |-> << >>, data |-> 1]

NoSrc == [pt |-> << >>, id |-> 0, genuine |-> FALSE, ks |-> 0]

IdleWorker ==
    [pc |-> "idle", ks |-> 0, dir |-> "none", skb |-> NoSkb, req |-> NoReq,
     ret |-> 0, pktid |-> 0, opsize |-> 0, payload_offset |-> 0,
     pending |-> FALSE, src |-> NoSrc, env |-> "ok"]

\* the cipher may fail for its own reasons
CipherErr == {0, -ENOMEM}

\* a call that returns as soon as the cipher request is queued
returns_on_submit == FALSE

\* line 172: ovpn_aead_encrypt waits for the cipher request (crypto_wait_req)
enc_waits == TRUE

\* line 266: ovpn_aead_decrypt waits for the cipher request (crypto_wait_req)
dec_waits == TRUE

Count(n) == IF n >= 2 THEN 2 ELSE n + 1

(***************************************************************************)
(* Worker steps.                                                           *)
(***************************************************************************)
\* a transform borrows the primary slot: pointer read and kref_get_unless_zero
Borrow(w) ==
    /\ wk[w].pc = "idle" /\ ~wk[w].pending
    /\ primary /= 0
    /\ slots[primary].refcount > 0
    /\ slots' = [slots EXCEPT ![primary].refcount = @ + 1]
    /\ wk' = [wk EXCEPT ![w] = [IdleWorker EXCEPT !.pc = "held", !.ks = primary]]
    /\ UNCHANGED <<primary, wire, taken, accepted>>
    /\ UNCHANGED <<bvars, kvars>>

\* ovpn_aead_encrypt up to the cipher request
EncBegin(w, pt, env, rnd, garbage) ==
    /\ wk[w].pc = "held"
    /\ \E s \in {wk[w].ks} :
       \E r \in {ovpn_aead_encrypt_begin(
                    slots[s], SkbOf(pt, ovpn_aead_encap_overhead(slots[s])),
                    env, rnd, garbage)} :
           /\ slots' = [slots EXCEPT ![s].pid_xmit = r.pid]
           /\ taken' = IF r.took THEN [taken EXCEPT ![s] = Append(@, r.pktid)]
                       ELSE taken
           /\ wk' = [wk EXCEPT ![w] =
                       [@ EXCEPT !.dir = "enc", !.skb = r.skb, !.req = r.req,
                                 !.env = env,
                                 !.pktid = r.pktid,
                                 !.src = [pt |-> pt, id |-> r.pktid,
                                          genuine |-> TRUE, ks |-> s],
                                 !.pending = r.wait,
                                 !.pc = IF r.wait /\ enc_waits THEN "enc_wait"
                                        ELSE "ret",
                                 !.ret = r.ret]]
    /\ UNCHANGED <<primary, wire, accepted>>
    /\ UNCHANGED <<bvars, kvars>>

\* the cipher request completes and ovpn_aead_encrypt returns
EncComplete(w, cerr) ==
    /\ wk[w].pending /\ wk[w].dir = "enc"
    /\ \E c \in {ovpn_aead_encrypt_complete(slots[wk[w].ks], wk[w].skb,
                                            wk[w].req, cerr)} :
           /\ wk' = [wk EXCEPT ![w] =
                    [@ EXCEPT !.pending = FALSE, !.skb = c.skb,
                              !.pc = IF @ = "enc_wait" THEN "ret" ELSE @,
                              !.ret = IF wk[w].pc = "enc_wait" THEN c.ret ELSE @]]
           /\ slots' = [slots EXCEPT ![wk[w].ks].pid_xmit = enc_exit_pid(@, c.ret)]
    /\ UNCHANGED <<primary, wire, taken, accepted>>
    /\ UNCHANGED <<bvars, kvars>>

\* ovpn_aead_decrypt up to the cipher request, on packet inp
DecBegin(w, inp, env) ==
    /\ wk[w].pc = "held"
    /\ \E skb \in {SkbOf(inp.pkt, 0)} :
       \E r \in {ovpn_aead_decrypt_begin(slots[wk[w].ks], skb, OpOf(skb), env)} :
           wk' = [wk EXCEPT ![w] =
                    [@ EXCEPT !.dir = "dec", !.skb = skb, !.req = r.req,
                              !.env = env,
                              !.opsize = r.opsize,
                              !.payload_offset = r.payload_offset,
                              !.src = inp.src,
                              !.pending = r.wait,
                              !.pc = IF r.wait /\ dec_waits THEN "dec_wait"
                                     ELSE "ret",
                              !.ret = r.ret]]
    /\ UNCHANGED <<slots, primary, wire, taken, accepted>>
    /\ UNCHANGED <<bvars, kvars>>

\* the cipher request completes; replay check; ovpn_aead_decrypt returns
DecComplete(w, cerr) ==
    /\ wk[w].pending /\ wk[w].dir = "dec"
    /\ \E s \in {wk[w].ks} :
       \E c \in {ovpn_aead_decrypt_complete(slots[s], wk[w].skb, wk[w].req,
                                            wk[w].opsize, wk[w].payload_offset,
                                            cerr)} :
           /\ slots' = [slots EXCEPT ![s].pid_recv = c.pr]
           /\ accepted' = IF c.acc
                          THEN [accepted EXCEPT ![s][c.id] = Count(@)]
                          ELSE accepted
           /\ wk' = [wk EXCEPT ![w] =
                       [@ EXCEPT !.pending = FALSE, !.skb = c.skb,
                                 !.pktid = c.id,
                                 !.pc = IF @ = "dec_wait" THEN "ret" ELSE @,
                                 !.ret = IF wk[w].pc = "dec_wait" THEN c.ret ELSE @]]
    /\ UNCHANGED <<primary, wire, taken>>
    /\ UNCHANGED <<bvars, kvars>>

\* the transform has returned and the slot is released; with loop, a packet
\* that was built is kept to be fed back to the receive side
Put(w, loop) ==
    /\ wk[w].pc = "ret"
    /\ wire' = IF loop /\ wk[w].dir = "enc" /\ wk[w].ret = 0
               THEN {[pkt |-> SkbData(wk[w].skb), src |-> wk[w].src]}
               ELSE wire
    /\ slots' = [slots EXCEPT ![wk[w].ks] = ovpn_crypto_key_slot_put(@)]
    /\ wk' = [wk EXCEPT ![w] = IF wk[w].pending THEN [@ EXCEPT !.pc = "idle"]
                               ELSE IdleWorker]
    /\ UNCHANGED <<primary, taken, accepted>>
    /\ UNCHANGED <<bvars, kvars>>

\* the control plane creates a slot from kc; a slot that was built becomes
\* primary (the caller sets its remote_peer_id) and the peer's hold on the
\* old one ends; an error leaves the peer as it is
KeySlotNew(kc, env) ==
    /\ \E n \in SlotIds :
        /\ slots[n].mem = "none"
        /\ \A m \in SlotIds : m < n => slots[m].mem /= "none"
        /\ \E r \in {ovpn_aead_crypto_key_slot_new(kc, env)} :
            /\ kres' = r
            /\ IF r.ret < 0
               THEN UNCHANGED <<slots, primary>>
               ELSE /\ slots' = [slots EXCEPT
                                   ![n] = [r.ks EXCEPT !.remote_peer_id = kc.peer_id],
                                   ![primary] = ovpn_crypto_key_slot_put(@)]
                    /\ primary' = n
    /\ UNCHANGED <<wk, wire, taken, accepted>>
    /\ UNCHANGED bvars

\* rekey: a creation that the crypto API and the allocator serve
Rekey(kc) == KeySlotNew(kc, OkEnv)

(***************************************************************************)
(* Peer bind (bind.c).  Readers capture peer->bind inside an RCU read-side *)
(* section; ovpn_bind_reset swaps the pointer and hands the old bind to    *)
(* call_rcu.                                                               *)
(***************************************************************************)
\* number of binds the peer can be given over its life
MaxBinds == 3

AF_UNSPEC == 0
AF_INET == 2
AF_INET6 == 10

BindIds == 1..MaxBinds
Readers == 1..NWorkers

NoBind == [mem |-> "none", kfrees |-> 0, family |-> AF_UNSPEC]

\* a bind made of whatever address comes, of any family
ovpn_bind_from_sockaddr_any_family(ss, env) ==
    IF env = "invalid"
    THEN [err |-> -EINVAL, bind |-> NoBind]
    ELSE IF env = "nomem"
    THEN [err |-> -ENOMEM, bind |-> NoBind]
    ELSE [err |-> 0,
          bind |-> [mem |-> "alloc", kfrees |-> 0, family |-> ss.ss_family]]

\* lines 466-490: the new bind, or the error
ovpn_bind_from_sockaddr(ss, env) ==
    IF ss.ss_family /= AF_INET /\ ss.ss_family /= AF_INET6
    THEN [err |-> -EAFNOSUPPORT, bind |-> NoBind]
    ELSE IF env = "invalid"
    THEN [err |-> -EINVAL, bind |-> NoBind]
    ELSE IF env = "nomem"
    THEN [err |-> -ENOMEM, bind |-> NoBind]
    ELSE [err |-> 0,
          bind |-> [mem |-> "alloc", kfrees |-> 0, family |-> ss.ss_family]]

\* a release that frees the bind a second time
ovpn_bind_release_twice(b) == [b EXCEPT !.mem = "freed", !.kfrees = @ + 2]

\* lines 492-495
ovpn_bind_release(b) == [b EXCEPT !.mem = "freed", !.kfrees = @ + 1]

\* a release that waits for no reader
call_rcu_no_grace(cbs, b, inside) == cbs \cup {[bind |-> b, waitfor |-> {}]}

\* line 513: the callback runs once every reader that is inside a read-side
\* section at the time of the call has left it
call_rcu(cbs, b, inside) == cbs \cup {[bind |-> b, waitfor |-> inside]}

NoReader == [pc |-> "out", bind |-> 0, stale |-> FALSE]

\* the writer: its position, the old bind it took out, the result of
\* ovpn_bind_from_sockaddr with the address it was given, and whether it
\* holds peer->lock
IdleWriter ==
    [pc |-> "idle", old |-> 0, err |-> 0, lock |-> FALSE,
     family |-> AF_UNSPEC, env |-> "ok"]

\* line 508
spin_lock_bh(wr) == [wr EXCEPT !.lock = TRUE]

\* a writer that goes on with peer->lock held
spin_unlock_bh_missing(wr) == wr

\* line 510
spin_unlock_bh(wr) == [wr EXCEPT !.lock = FALSE]

SockAddrs == {[ss_family |-> f] : f \in {AF_INET, AF_INET6, AF_UNSPEC}}

BindEnv == {"ok", "invalid", "nomem"}

\* rcu_read_lock
RcuReadLock(r) ==
    /\ rd[r].pc = "out"
    /\ rd' = [rd EXCEPT ![r].pc = "in"]
    /\ UNCHANGED <<binds, peer_bind, bw, rcu_cbs>>
    /\ UNCHANGED <<tvars, kvars>>

\* rcu_dereference(peer->bind)
RcuDereference(r) ==
    /\ rd[r].pc = "in"
    /\ rd' = [rd EXCEPT ![r].pc = "got", ![r].bind = peer_bind]
    /\ UNCHANGED <<binds, peer_bind, bw, rcu_cbs>>
    /\ UNCHANGED <<tvars, kvars>>

\* the reader reads the address out of the bind it captured
BindRead(r) ==
    /\ rd[r].pc = "got"
    /\ rd[r].bind /= 0
    /\ rd' = [rd EXCEPT ![r].stale = @ \/ binds[rd[r].bind].mem /= "alloc"]
    /\ UNCHANGED <<binds, peer_bind, bw, rcu_cbs>>
    /\ UNCHANGED <<tvars, kvars>>

\* rcu_read_unlock: no grace period waits for this reader any longer
RcuReadUnlock(r) ==
    /\ rd[r].pc = "got"
    /\ rd' = [rd EXCEPT ![r] = NoReader]
    /\ rcu_cbs' = {[cb EXCEPT !.waitfor = @ \ {r}] : cb \in rcu_cbs}
    /\ UNCHANGED <<binds, peer_bind, bw>>
    /\ UNCHANGED <<tvars, kvars>>

\* rebind: ovpn_bind_from_sockaddr; on an error the caller is left with it,
\* otherwise lines 508-510 of ovpn_bind_reset: lock, replace, unlock
BindResetSwap(ss, env) ==
    /\ bw.pc = "idle" /\ ~bw.lock
    /\ \E n \in BindIds :
        /\ binds[n].mem = "none"
        /\ \A m \in BindIds : m < n => binds[m].mem /= "none"
        /\ \E r \in {ovpn_bind_from_sockaddr(ss, env)} :
              IF r.err < 0
              THEN /\ bw' = [IdleWriter EXCEPT !.pc = "failed", !.err = r.err,
                                               !.family = ss.ss_family,
                                               !.env = env]
                   /\ UNCHANGED <<binds, peer_bind>>
              ELSE /\ binds' = [binds EXCEPT ![n] = r.bind]
                   /\ peer_bind' = n
                   /\ bw' = spin_unlock_bh(
                               [spin_lock_bh(bw) EXCEPT
                                   !.pc = "swapped", !.old = peer_bind,
                                   !.family = ss.ss_family, !.env = env])
    /\ UNCHANGED <<rd, rcu_cbs>>
    /\ UNCHANGED <<tvars, kvars>>

\* the caller of ovpn_bind_from_sockaddr returns with the error
BindResetFail ==
    /\ bw.pc = "failed"
    /\ bw' = IdleWriter
    /\ UNCHANGED <<binds, peer_bind, rd, rcu_cbs>>
    /\ UNCHANGED <<tvars, kvars>>

\* lines 512-513 of ovpn_bind_reset
BindResetCallRcu ==
    /\ bw.pc = "swapped"
    /\ rcu_cbs' = IF bw.old /= 0
                  THEN call_rcu(rcu_cbs, bw.old, {r \in Readers : rd[r].pc /= "out"})
                  ELSE rcu_cbs
    /\ bw' = [IdleWriter EXCEPT !.lock = bw.lock]
    /\ UNCHANGED <<binds, peer_bind, rd>>
    /\ UNCHANGED <<tvars, kvars>>

\* lines 497-502: ovpn_bind_release_rcu, run after the grace period
RcuCallback ==
    /\ \E cb \in rcu_cbs :
        /\ cb.waitfor = {}
        /\ binds' = [binds EXCEPT ![cb.bind] = ovpn_bind_release(@)]
        /\ rcu_cbs' = rcu_cbs \ {cb}
    /\ UNCHANGED <<peer_bind, rd, bw>>
    /\ UNCHANGED <<tvars, kvars>>

(***************************************************************************)
(* Inputs.                                                                 *)
(***************************************************************************)
\* byte x with bit b inverted
FlipBit(x, b) ==
    IF (x \div (2 ^ b)) % 2 = 1 THEN x - 2 ^ b ELSE x + 2 ^ b

\* packet pkt with bit b of byte i inverted
Flip(pkt, i, b) == [pkt EXCEPT ![i] = FlipBit(@, b)]

Forge(inp, i, b) ==
    [pkt |-> Flip(inp.pkt, i, b), src |-> [inp.src EXCEPT !.genuine = FALSE]]

\* what the remote end sends to slot ks: payload pt under any packet id
RemoteSends(ks, pts) ==
    {[pkt |-> Encapsulate(Mirror(ks), id, pt),
      src |-> [pt |-> pt, id |-> id, genuine |-> TRUE, ks |-> 0]] :
        id \in 0..(PktidMax - 1), pt \in pts}

\* a forgery of a packet: another packet id under the old tag
ForgedId(inp) == Forge(inp, OVPN_OP_SIZE_V2 + NONCE_WIRE_SIZE, 0)

\* a forgery of a packet: the first byte of the tag damaged
DamagedTag(inp) == Forge(inp, OVPN_OP_SIZE_V2 + NONCE_WIRE_SIZE + 1, 7)

\* every single-bit change of a packet
AllFlips(inp) ==
    {Forge(inp, i, b) : i \in 1..Len(inp.pkt), b \in 0..7}

Rnd == {Zeros(NONCE_SIZE), AsSeq([i \in 1..NONCE_SIZE |-> 170])}

Garbage == 0..PktidMax

\* the peer's first key configuration: one key and nonce tail per direction
FirstConfig == KeyConfig(1, 2, 7, 8, 1)

\* the configuration of the rekey: the one the remote end holds for the first
NextConfig == KeyConfig(2, 1, 8, 7, 5)

KeyConfigs == {FirstConfig, NextConfig}

\* configurations the control plane may hand down for the next slot: the
\* good one, and it with another algorithm, a key of 5 bytes for either
\* direction, or a nonce tail of the wrong length for either direction
NewConfigs ==
    {NextConfig,
     [NextConfig EXCEPT !.cipher_alg = OVPN_CIPHER_ALG_NONE],
     [NextConfig EXCEPT !.ekey_size = 5],
     [NextConfig EXCEPT !.dkey_size = 5],
     [NextConfig EXCEPT !.etail = SubSeq(@, 1, NONCE_TAIL_SIZE - 1)],
     [NextConfig EXCEPT !.dtail = @ \o <<7>>]}

\* what the allocator and the crypto API do to one creation: the first
\* call they fail, if any (a creation stops at its first error)
KeyEnvs ==
    {e \in [kmalloc : {"ok", "nomem"}, enc : AeadEnv, dec : AeadEnv,
            garbage : {1, PktidMax}] :
        Cardinality({f \in {"kmalloc", "enc", "dec"} : e[f] /= "ok"}) <= 1}

KeyConfigOf(ks) ==
    CHOOSE kc \in KeyConfigs :
        /\ kc.dkey = ks.decrypt.key /\ kc.dtail = ks.nonce_tail_recv
        /\ kc.ekey = ks.encrypt.key /\ kc.etail = ks.nonce_tail_xmit
        /\ kc.key_id = ks.key_id

\* the packets offered to the receive side of a slot, by its configuration
RxTable ==
    [kc \in KeyConfigs |->
        LET g == RemoteSends(ovpn_aead_crypto_key_slot_init(kc), {<<65>>})
        IN  g \cup {ForgedId(i) : i \in g}
              \cup {DamagedTag(i) : i \in {j \in g : j.src.id = 0}}]

ProbeTable ==
    [kc \in KeyConfigs |->
        {i \in RemoteSends(ovpn_aead_crypto_key_slot_init(kc), {<<65>>}) :
            i.src.id = 0}]

\* a DATA_V1 packet of the remote end of slot ks: one op byte, the packet id,
\* the tag and the ciphertext; with_op tells whether the sender authenticated
\* the op byte along with the packet id
PacketV1(ks, id, pt, with_op) ==
    LET op  == << OVPN_DATA_V1 * (2 ^ OVPN_OPCODE_SHIFT) + ks.key_id >>
        wid == Htonl(id)
        iv  == wid \o ks.nonce_tail_xmit
        ct  == StreamEnc(ks.encrypt.key, iv, pt)
        ad  == IF with_op THEN op \o wid ELSE wid
    IN  op \o wid \o AeadTag(ks.encrypt.key, iv, ad, ct, ks.encrypt.authsize) \o ct

\* what a remote end that speaks DATA_V1 sends to slot ks
RemoteSendsV1(ks, pts) ==
    {[pkt |-> PacketV1(Mirror(ks), id, pt, FALSE),
      src |-> [pt |-> pt, id |-> id, genuine |-> TRUE, ks |-> 0]] :
        id \in 0..(PktidMax - 1), pt \in pts}

\* DATA_V1 packets whose sender authenticated the op byte too
AuthenticatedOpV1(ks, pts) ==
    {[pkt |-> PacketV1(Mirror(ks), 0, pt, TRUE),
      src |-> [pt |-> pt, id |-> 0, genuine |-> FALSE, ks |-> 0]] : pt \in pts}

\* every proper prefix of a packet
Truncations(inp) ==
    {[pkt |-> SubSeq(inp.pkt, 1, n), src |-> [inp.src EXCEPT !.genuine = FALSE]] :
        n \in 0..(Len(inp.pkt) - 1)}

\* a packet under every opcode that is not a data opcode
OtherOpcodes(inp) ==
    {[pkt |-> [inp.pkt EXCEPT ![1] = c * (2 ^ OVPN_OPCODE_SHIFT)
                                      + (@ % (2 ^ OVPN_OPCODE_SHIFT))],
      src |-> [inp.src EXCEPT !.genuine = FALSE]] :
        c \in (0..31) \ {OVPN_DATA_V1, OVPN_DATA_V2}}

\* the packets offered to the header parsing of the first slot
HdrInputs ==
    LET ks == ovpn_aead_crypto_key_slot_init(FirstConfig)
        v2 == RemoteSends(ks, Plaintexts)
        v1 == RemoteSendsV1(ks, Plaintexts)
        g0 == {i \in v2 \cup v1 : i.src.id = 0}
    IN  v2 \cup v1 \cup AuthenticatedOpV1(ks, Plaintexts)
           \cup UNION {Truncations(i) : i \in g0}
           \cup UNION {OtherOpcodes(i) : i \in g0}

Init ==
    /\ slots = [n \in SlotIds |->
                  IF n = 1 THEN ovpn_aead_crypto_key_slot_init(FirstConfig)
                  ELSE NoSlot]
    /\ primary = 1
    /\ wk = [w \in Workers |-> IdleWorker]
    /\ wire = {}
    /\ taken = [n \in SlotIds |-> << >>]
    /\ accepted = [n \in SlotIds |-> [id \in 0..PktidMax |-> 0]]
    /\ binds = [n \in BindIds |-> NoBind]
    /\ peer_bind = 0
    /\ rd = [r \in Readers |-> NoReader]
    /\ bw = IdleWriter
    /\ rcu_cbs = {}
    /\ kres = ovpn_aead_crypto_key_slot_new(FirstConfig, OkEnv)

EncAny(w, pts, envs) ==
    /\ wk[w].pc = "held"
    /\ \E pt \in pts :
         \/ \E env \in envs \ {"ok"} : EncBegin(w, pt, env, Zeros(NONCE_SIZE), 0)
         \/ \E rnd \in Rnd :
               \E g \in IF ovpn_pktid_xmit_next(slots[wk[w].ks].pid_xmit).set
                        THEN {0} ELSE Garbage :
                   EncBegin(w, pt, "ok", rnd, g)

DecAny(w, inputs, envs) ==
    /\ wk[w].pc = "held"
    /\ \E inp \in inputs, env \in envs : DecBegin(w, inp, env)

(***************************************************************************)
(* Spec: concurrent workers encapsulate on the peer's primary slot (and    *)
(* decapsulate one packet of the remote end) while the control plane       *)
(* rekeys.                                                                 *)
(***************************************************************************)
Next ==
    \/ \E w \in Workers : Borrow(w)
    \/ \E w \in Workers : EncAny(w, {<<65>>}, {"ok", "nobufs"})
    \/ \E w \in Workers, cerr \in CipherErr : EncComplete(w, cerr)
    \/ \E w \in Workers :
          /\ wk[w].pc = "held"
          /\ DecAny(w, ProbeTable[KeyConfigOf(slots[wk[w].ks])], {"ok"})
    \/ \E w \in Workers, cerr \in CipherErr : DecComplete(w, cerr)
    \/ \E w \in Workers : Put(w, FALSE)
    \/ Rekey(NextConfig)

Spec == Init /\ [][Next]_vars

(***************************************************************************)
(* SpecRx: concurrent workers decapsulate what the remote end sent, in any *)
(* order and any number of times, along with forgeries of it.              *)
(***************************************************************************)
NextRx ==
    \/ \E w \in Workers : Borrow(w)
    \/ \E w \in Workers :
          /\ wk[w].pc = "held"
          /\ DecAny(w, RxTable[KeyConfigOf(slots[wk[w].ks])], {"ok"})
    \/ \E w \in Workers, cerr \in CipherErr : DecComplete(w, cerr)
    \/ \E w \in Workers : Put(w, FALSE)

SpecRx == Init /\ [][NextRx]_vars

(***************************************************************************)
(* SpecWire: one worker encapsulates payloads on the primary slot; the     *)
(* packet built last is fed back, intact or with one bit changed, to the   *)
(* slot that is primary by then (after the rekey: the slot that holds the  *)
(* keys of the remote end).                                                *)
(***************************************************************************)
NextWire ==
    \/ Borrow(1)
    \/ EncAny(1, Plaintexts, EncEnv)
    \/ EncComplete(1, 0)
    \/ DecAny(1, wire, DecEnv)
    \/ DecAny(1, UNION {AllFlips(i) : i \in wire}, {"ok"})
    \/ \E cerr \in CipherErr : DecComplete(1, cerr)
    \/ Put(1, TRUE)
    \/ Rekey(NextConfig)

SpecWire == Init /\ [][NextWire]_vars

(***************************************************************************)
(* SpecBind: readers look the peer's bind up while the writer rebinds and  *)
(* the deferred releases run.                                              *)
(***************************************************************************)
NextBind ==
    \/ \E r \in Readers : RcuReadLock(r)
    \/ \E r \in Readers : RcuDereference(r)
    \/ \E r \in Readers : BindRead(r)
    \/ \E r \in Readers : RcuReadUnlock(r)
    \/ \E ss \in SockAddrs, env \in BindEnv : BindResetSwap(ss, env)
    \/ BindResetFail
    \/ BindResetCallRcu
    \/ RcuCallback

SpecBind == Init /\ [][NextBind]_vars

\* SpecBind where a reader that entered its read-side section goes on to
\* leave it and a callback whose grace period is over runs; the writer is
\* free to stop rebinding
SpecBindFair ==
    /\ SpecBind
    /\ WF_vars(RcuCallback)
    /\ \A r \in Readers :
          WF_vars(RcuDereference(r)) /\ WF_vars(RcuReadUnlock(r))

(***************************************************************************)
(* SpecHdr: one worker decapsulates DATA_V2 and DATA_V1 packets of the     *)
(* remote end, cut-off copies of them and packets under other opcodes.     *)
(***************************************************************************)
NextHdr ==
    \/ Borrow(1)
    \/ DecAny(1, HdrInputs, {"ok", "pull"})
    \/ \E cerr \in CipherErr : DecComplete(1, cerr)
    \/ Put(1, FALSE)

SpecHdr == Init /\ [][NextHdr]_vars

(***************************************************************************)
(* SpecSlot: the control plane creates slots from good and bad             *)
(* configurations, with the allocator and the crypto API free to fail,     *)
(* while a worker borrows the primary slot and encapsulates on it.         *)
(***************************************************************************)
NextSlot ==
    \/ \E kc \in NewConfigs, env \in KeyEnvs : KeySlotNew(kc, env)
    \/ Borrow(1)
    \/ wk[1].pc = "held" /\ EncBegin(1, <<65>>, "ok", Zeros(NONCE_SIZE), 0)
    \/ EncComplete(1, 0)
    \/ Put(1, FALSE)

SpecSlot == Init /\ [][NextSlot]_vars

(***************************************************************************)
(* Properties.                                                             *)
(***************************************************************************)
\* ovpn_aead_encrypt of worker w got as far as building the packet
Built(w) == wk[w].dir = "enc" /\ wk[w].req /= NoReq

\* the wire packet id field of the packet worker w holds
WirePktid(w) ==
    SubSeq(SkbData(wk[w].skb), OVPN_OP_SIZE_V2 + 1, OVPN_OP_SIZE_V2 + NONCE_WIRE_SIZE)

\* worker w holds a reference on slot s
Holds(w, s) == wk[w].pc \in {"held", "enc_wait", "dec_wait", "ret"} /\ wk[w].ks = s

\* a transform of worker w, or a cipher request of it, is outstanding
InFlight(w) == wk[w].pc /= "idle" \/ wk[w].pending

\* the step in which ovpn_aead_encrypt of worker w runs up to its cipher request
EncBeginStep(w) == wk[w].pc = "held" /\ wk'[w].pc /= "held" /\ wk'[w].dir = "enc"

\* the step in which the cipher request of a decapsulation of worker w completes
DecCompleteStep(w) == wk[w].pending /\ wk[w].dir = "dec" /\ ~wk'[w].pending

\* what the cipher returns when it fails for its own reasons
CipherFailures == {e \in CipherErr : e < 0}

\* the highest packet id slot s has accepted, 0 before the first
Highest(s) ==
    LET ids == {id \in 0..PktidMax : accepted[s][id] >= 1}
    IN  IF ids = {} THEN 0 ELSE CHOOSE id \in ids : \A o \in ids : o <= id

\* the acceptance rule of the receive validator, from the ids accepted so far
ValidatorRule(s, id) ==
    \/ id > Highest(s)
    \/ Highest(s) - id < ReplayWindow /\ accepted[s][id] = 0

\* slot k2 decrypts what slot k1 encrypts
Matches(k2, k1) ==
    /\ k2.decrypt.key = k1.encrypt.key
    /\ k2.nonce_tail_recv = k1.nonce_tail_xmit

OVERHEAD == OVPN_OP_SIZE_V2 + NONCE_WIRE_SIZE + auth_tag_size

\* C1: on one key slot, under any interleaving of concurrent encapsulating
\* workers, the packet ids the counter issues are strictly increasing in
\* the order of issue, no two encapsulations hold the same id, and every
\* packet carries on the wire the id its encapsulation obtained.
PktidsUniqueAndIncreasing ==
    /\ \A s \in SlotIds : \A i, j \in 1..Len(taken[s]) :
          i < j => taken[s][i] < taken[s][j]
    /\ \A w \in Workers : Built(w) =>
          /\ WirePktid(w) = Htonl(wk[w].pktid)
          /\ \E i \in 1..Len(taken[wk[w].ks]) : taken[wk[w].ks][i] = wk[w].pktid
    /\ \A w1, w2 \in Workers :
          (w1 /= w2 /\ Built(w1) /\ Built(w2) /\ wk[w1].ks = wk[w2].ks)
             => wk[w1].pktid /= wk[w2].pktid

\* two workers are inside ovpn_aead_encrypt on one slot, with different ids
TwoEncapsulationsInFlight ==
    \E w1, w2 \in Workers :
        /\ wk[w1].pc = "enc_wait" /\ wk[w2].pc = "enc_wait"
        /\ wk[w1].ks = wk[w2].ks
        /\ wk[w1].pktid < wk[w2].pktid

\* C2: once the transmit counter of a slot has reached its maximum, every
\* encapsulation on the slot fails (with -ERANGE unless a buffer or
\* allocation failure comes first), builds no packet and leaves the counter
\* as it is; the counter of a slot never goes back.
ExhaustedSlotRefuses ==
    [][/\ \A w \in Workers :
            (EncBeginStep(w) /\ slots[wk[w].ks].pid_xmit.seq_num >= PktidMax) =>
               /\ wk'[w].ret < 0
               /\ (wk'[w].env = "ok" => wk'[w].ret = -ERANGE)
               /\ wk'[w].req = NoReq
               /\ ~wk'[w].pending
               /\ slots'[wk[w].ks].pid_xmit = slots[wk[w].ks].pid_xmit
               /\ taken' = taken
       /\ \A s \in SlotIds :
            slots'[s].pid_xmit.seq_num >= slots[s].pid_xmit.seq_num]_vars

\* an encapsulation was refused on a slot that has issued every id
ExhaustedSlotRefused ==
    \E w \in Workers :
        /\ wk[w].dir = "enc" /\ wk[w].pc = "ret"
        /\ wk[w].env = "ok" /\ wk[w].ret = -ERANGE
        /\ Len(taken[wk[w].ks]) = PktidMax
        /\ taken[wk[w].ks][PktidMax] = PktidMax - 1

\* C3: a decapsulation whose packet does not authenticate, or whose cipher
\* request fails, leaves the replay state of every slot as it was and does
\* not return success or -EEXIST; the replay state changes only in a step
\* in which a decapsulation returns 0.
ReplayStateOnlyAfterAuth ==
    [][/\ \A w \in Workers :
            (DecCompleteStep(w)
               /\ (~wk[w].src.genuine \/ wk'[w].ret \notin {0, -EEXIST})) =>
               /\ \A s \in SlotIds : slots'[s].pid_recv = slots[s].pid_recv
               /\ accepted' = accepted
               /\ wk'[w].ret \notin {0, -EEXIST}
       /\ (\E s \in SlotIds : slots'[s].pid_recv /= slots[s].pid_recv) =>
             \E w \in Workers : DecCompleteStep(w) /\ wk'[w].ret = 0]_vars

\* a forged packet failed authentication on a slot that has accepted packets
ForgedRejectedByTag ==
    \E w \in Workers :
        /\ wk[w].dir = "dec" /\ wk[w].pc = "ret" /\ ~wk[w].src.genuine
        /\ wk[w].ret = -EBADMSG
        /\ slots[wk[w].ks].pid_recv /= ovpn_pktid_recv_init

\* C4: over any sequence of decapsulations a packet id is accepted at most
\* once per slot: a packet whose id the slot has accepted is rejected with
\* -EEXIST every later time, and a packet whose id is newer than every id
\* accepted so far is accepted (unless the cipher itself fails).
ReplayRejected ==
    /\ [](\A s \in SlotIds : \A id \in 0..PktidMax : accepted[s][id] <= 1)
    /\ [][\A w \in Workers :
            (DecCompleteStep(w) /\ wk[w].src.genuine) =>
               /\ accepted[wk[w].ks][wk[w].src.id] >= 1
                     => wk'[w].ret \in {-EEXIST} \cup CipherFailures
               /\ (accepted[wk[w].ks][wk[w].src.id] = 0
                      /\ wk[w].src.id >= Highest(wk[w].ks))
                     => wk'[w].ret \in {0} \cup CipherFailures]_vars

\* a packet was rejected as a duplicate while its id was inside the window
DuplicateRejected ==
    \E w \in Workers :
        /\ wk[w].dir = "dec" /\ wk[w].pc = "ret" /\ wk[w].src.genuine
        /\ wk[w].ret = -EEXIST
        /\ accepted[wk[w].ks][wk[w].src.id] = 1
        /\ slots[wk[w].ks].pid_recv.highest_seen - wk[w].src.id < ReplayWindow

\* C5: the validator accepts an authenticated id exactly when it is above
\* highest_seen, or at most highest_seen, less than ReplayWindow behind it
\* and not accepted before; highest_seen is the highest id accepted.
WindowRule ==
    /\ [](\A s \in SlotIds : slots[s].pid_recv.highest_seen = Highest(s))
    /\ [][\A w \in Workers :
            (DecCompleteStep(w) /\ wk'[w].ret \in {0, -EEXIST}) =>
               (wk'[w].ret = 0 <=> ValidatorRule(wk[w].ks, wk'[w].pktid))]_vars

\* an id below highest_seen was accepted, and an id behind the window refused
OutOfOrderAccepted ==
    /\ \E w \in Workers :
        /\ wk[w].dir = "dec" /\ wk[w].pc = "ret" /\ wk[w].ret = 0
        /\ wk[w].pktid < slots[wk[w].ks].pid_recv.highest_seen
    /\ \E w \in Workers :
        /\ wk[w].dir = "dec" /\ wk[w].pc = "ret" /\ wk[w].ret = -EEXIST
        /\ accepted[wk[w].ks][wk[w].pktid] = 0

\* C6 (as amended): a packet with one bit changed never decapsulates with
\* success or -EEXIST and leaves the replay state unchanged; a change in
\* the opcode bits fails with -EINVAL at the opcode check, a change of any
\* other bit fails with -EBADMSG (or with the cipher's own failure).
TamperedPacketRejected ==
    /\ [](\A w \in Workers :
            (wk[w].dir = "dec" /\ wk[w].pc = "ret" /\ ~wk[w].src.genuine) =>
               /\ wk[w].ret \notin {0, -EEXIST}
               /\ wk[w].env = "ok" =>
                    IF ovpn_opcode_extract(OpOf(wk[w].skb)) /= OVPN_DATA_V2
                    THEN wk[w].ret = -EINVAL
                    ELSE wk[w].ret \in {-EBADMSG} \cup CipherFailures)
    /\ [][\A w \in Workers :
            (DecCompleteStep(w) /\ ~wk[w].src.genuine) =>
               /\ \A s \in SlotIds : slots'[s].pid_recv = slots[s].pid_recv
               /\ accepted' = accepted]_vars

\* C6 as stated: every packet with one bit changed fails authentication
TamperAlwaysFailsAuthentication ==
    \A w \in Workers :
        (wk[w].dir = "dec" /\ wk[w].pc = "ret" /\ ~wk[w].src.genuine
           /\ wk[w].env = "ok") =>
           wk[w].ret \in {-EBADMSG} \cup CipherFailures

\* a changed copy of a packet the slot has accepted failed authentication
TamperedReplayFailedAuthentication ==
    \E w \in Workers :
        /\ wk[w].dir = "dec" /\ wk[w].pc = "ret" /\ ~wk[w].src.genuine
        /\ wk[w].ret = -EBADMSG
        /\ accepted[wk[w].ks][wk[w].src.id] = 1

\* C7 (as amended): a packet built by slot K decapsulates on a slot whose
\* decrypt key and receive nonce tail are K's encrypt key and transmit
\* nonce tail: it returns 0 whenever the validator admits its id and the
\* cipher does not fail, and then leaves exactly the plaintext, behind
\* OVERHEAD stripped bytes; on any other slot it fails with -EBADMSG.
RoundTripOnMatchingSlot ==
    /\ [](\A w \in Workers :
            (wk[w].dir = "dec" /\ wk[w].pc = "ret" /\ wk[w].src.genuine
               /\ wk[w].env = "ok") =>
               IF Matches(slots[wk[w].ks], slots[wk[w].src.ks])
               THEN /\ wk[w].ret \in {0, -EEXIST} \cup CipherFailures
                    /\ wk[w].ret = 0 =>
                         /\ SkbData(wk[w].skb) = wk[w].src.pt
                         /\ wk[w].skb.data = 1 + OVERHEAD
               ELSE wk[w].ret \in {-EBADMSG} \cup CipherFailures)
    /\ [][\A w \in Workers :
            (DecCompleteStep(w) /\ wk[w].src.genuine
               /\ Matches(slots[wk[w].ks], slots[wk[w].src.ks])
               /\ ValidatorRule(wk[w].ks, wk[w].src.id)) =>
               wk'[w].ret \in {0} \cup CipherFailures]_vars

\* C7 as stated: a packet decapsulates on the slot that built it
RoundTripOnSameSlot ==
    \A w \in Workers :
        (wk[w].dir = "dec" /\ wk[w].pc = "ret" /\ wk[w].src.genuine
           /\ wk[w].env = "ok" /\ wk[w].ks = wk[w].src.ks) =>
           /\ wk[w].ret \in {0, -EEXIST} \cup CipherFailures
           /\ wk[w].ret = 0 => SkbData(wk[w].skb) = wk[w].src.pt

\* a non-empty payload came back from the slot of the remote end
RoundTripDelivered ==
    \E w \in Workers :
        /\ wk[w].dir = "dec" /\ wk[w].pc = "ret" /\ wk[w].src.genuine
        /\ wk[w].ret = 0
        /\ wk[w].src.pt /= << >>
        /\ SkbData(wk[w].skb) = wk[w].src.pt
        /\ wk[w].ks /= wk[w].src.ks

\* C8: a bind is never freed while a reader that captured it is inside its
\* read-side section, no reader reads freed memory, a bind is freed at most
\* once and never while it is the peer's current bind, and what a reader
\* captures is the bind that is current at that moment.
BindNotFreedUnderReader ==
    /\ [](\A r \in Readers :
            /\ ~rd[r].stale
            /\ (rd[r].pc = "got" /\ rd[r].bind /= 0) =>
                  binds[rd[r].bind].mem = "alloc")
    /\ [](\A b \in BindIds :
            /\ binds[b].kfrees <= 1
            /\ binds[b].mem = "freed" => b /= peer_bind)
    /\ [][\A r \in Readers :
            (rd[r].pc = "in" /\ rd'[r].pc = "got") =>
               /\ rd'[r].bind = peer_bind
               /\ peer_bind /= 0 => binds[peer_bind].mem = "alloc"]_vars

\* a reader still holds the bind a rebind replaced, its release waits for
\* that reader, another reader holds the new bind, an older bind is freed
ReaderHoldsReplacedBind ==
    /\ \E r \in Readers :
        /\ rd[r].pc = "got" /\ rd[r].bind \notin {0, peer_bind}
        /\ \E cb \in rcu_cbs : cb.bind = rd[r].bind /\ r \in cb.waitfor
    /\ \E r \in Readers : rd[r].pc = "got" /\ rd[r].bind = peer_bind
    /\ \E b \in BindIds : binds[b].mem = "freed"

\* C9: the slot a transform or a cipher request is outstanding on is
\* allocated and its two cipher contexts are live; a slot is destroyed when
\* the last reference (the peer's or a transform's) is dropped, and its
\* memory and each cipher context are freed at most once.
KeySlotOutlivesTransforms ==
    /\ \A w \in Workers : InFlight(w) =>
          /\ slots[wk[w].ks].mem = "alloc"
          /\ slots[wk[w].ks].encrypt.state = "live"
          /\ slots[wk[w].ks].decrypt.state = "live"
    /\ \A s \in SlotIds :
          /\ slots[s].kfrees <= 1
          /\ slots[s].encrypt.frees <= 1 /\ slots[s].decrypt.frees <= 1
          /\ slots[s].mem = "alloc" =>
                /\ slots[s].kfrees = 0
                /\ slots[s].refcount >= 1
                /\ slots[s].refcount =
                      (IF s = primary THEN 1 ELSE 0)
                         + Cardinality({w \in Workers : Holds(w, s)})
          /\ slots[s].mem = "freed" =>
                /\ slots[s].kfrees = 1 /\ slots[s].refcount = 0
                /\ slots[s].encrypt.state = "freed"
                /\ slots[s].decrypt.state = "freed"
                /\ s /= primary

\* after the rekey, the old slot lives on the reference of a transform that
\* waits for its cipher request while another transform uses the new slot
OldSlotKeptByWaitingTransform ==
    /\ \E w \in Workers :
        /\ wk[w].pending /\ wk[w].pc \in {"enc_wait", "dec_wait"}
        /\ wk[w].ks /= primary
        /\ slots[wk[w].ks].mem = "alloc" /\ slots[wk[w].ks].refcount = 1
    /\ \E w \in Workers : wk[w].pc = "enc_wait" /\ wk[w].ks = primary

\* the packet the code builds: op word, wire packet id, tag, ciphertext
PacketTagFirst(ks, id, pt) ==
    LET op  == ovpn_op32_compose(OVPN_DATA_V2, ks.key_id, ks.remote_peer_id)
        wid == Htonl(id)
        iv  == wid \o ks.nonce_tail_xmit
        ct  == StreamEnc(ks.encrypt.key, iv, pt)
        tag == AeadTag(ks.encrypt.key, iv, op \o wid, ct, auth_tag_size)
    IN  op \o wid \o tag \o ct

\* the packet of the V2 layout with the tag behind the ciphertext
PacketTagLast(ks, id, pt) ==
    LET op  == ovpn_op32_compose(OVPN_DATA_V2, ks.key_id, ks.remote_peer_id)
        wid == Htonl(id)
        iv  == wid \o ks.nonce_tail_xmit
        ct  == StreamEnc(ks.encrypt.key, iv, pt)
        tag == AeadTag(ks.encrypt.key, iv, op \o wid, ct, auth_tag_size)
    IN  op \o wid \o ct \o tag

\* C10 (as amended): every packet an encapsulation produces is
\* [1 byte opcode|key-id][3 bytes peer-id][4 bytes packet id][16-byte tag]
\* [ciphertext], the tag sitting between the packet id and the ciphertext,
\* 24 bytes longer than the plaintext; decapsulation of a V2 packet reads
\* the associated data, the tag and the ciphertext from those positions.
WireLayoutTagFirst ==
    /\ \A w \in Workers :
          (wk[w].dir = "enc" /\ wk[w].pc = "ret" /\ wk[w].ret = 0) =>
             /\ SkbData(wk[w].skb)
                   = PacketTagFirst(slots[wk[w].ks], wk[w].pktid, wk[w].src.pt)
             /\ SkbLen(wk[w].skb) = Len(wk[w].src.pt) + 24
             /\ SkbData(wk[w].skb)[1]
                   = OVPN_DATA_V2 * 8 + slots[wk[w].ks].key_id
    /\ \A w \in Workers :
          (wk[w].dir = "dec" /\ wk[w].pc = "dec_wait"
             /\ wk[w].opsize = OVPN_OP_SIZE_V2) =>
             wk[w].req.sg = << sg_set_buf(wk[w].skb.data, 8),
                               sg_set_buf(wk[w].skb.data + 24,
                                          SkbLen(wk[w].skb) - 24),
                               sg_set_buf(wk[w].skb.data + 8, 16) >>

\* C10 as stated: the tag trails the ciphertext
WireLayoutTagLast ==
    \A w \in Workers :
        (wk[w].dir = "enc" /\ wk[w].pc = "ret" /\ wk[w].ret = 0) =>
           SkbData(wk[w].skb)
              = PacketTagLast(slots[wk[w].ks], wk[w].pktid, wk[w].src.pt)

\* a packet an encapsulation built around a payload is being decapsulated
BuiltPacketBeingRead ==
    \E w \in Workers : \E i \in wire :
        /\ wk[w].dir = "dec" /\ wk[w].pc = "dec_wait"
        /\ i.src = wk[w].src /\ i.pkt = SkbData(wk[w].skb)
        /\ i.src.pt /= << >> /\ i.src.id > 0
        /\ Len(i.pkt) = Len(i.src.pt) + 24

\* the associated data the cipher request of worker w covers
ReqAd(w) ==
    SgRead(wk[w].skb.buf, SgIdx(wk[w].req.sg), 1, wk[w].req.assoclen)

\* C11 (as amended): the associated data of a decapsulation is the 8 bytes
\* (op word, packet id) that begin a DATA_V2 packet, and for a DATA_V1 packet
\* the 4 bytes of the packet id that follow the op byte, the op byte itself
\* left out; a packet the remote end authenticated over that range
\* decapsulates to its plaintext, any other packet does not decapsulate.
AdIsHeaderAndPacketId ==
    \A w \in Workers :
        /\ (wk[w].dir = "dec" /\ wk[w].req /= NoReq) =>
              IF wk[w].opsize = OVPN_OP_SIZE_V2
              THEN /\ wk[w].req.assoclen = 8
                   /\ ReqAd(w) = SubSeq(wk[w].skb.buf, 1, 8)
              ELSE /\ wk[w].opsize = OVPN_OP_SIZE_V1
                   /\ wk[w].req.assoclen = 4
                   /\ ReqAd(w) = SubSeq(wk[w].skb.buf, 2, 5)
        /\ (wk[w].dir = "dec" /\ wk[w].pc = "ret") =>
              /\ (wk[w].src.genuine /\ wk[w].ret = 0) =>
                    SkbData(wk[w].skb) = wk[w].src.pt
              /\ (wk[w].src.genuine /\ wk[w].env = "ok") =>
                    wk[w].ret \in {0, -EEXIST} \cup CipherFailures
              /\ ~wk[w].src.genuine => wk[w].ret < 0

\* C11 as stated: the associated data is every byte before the packet id's
\* end, 8 bytes for DATA_V2 and 5 bytes for DATA_V1
AdIsEveryByteBeforeTag ==
    \A w \in Workers :
        (wk[w].dir = "dec" /\ wk[w].req /= NoReq) =>
           /\ wk[w].req.assoclen = wk[w].opsize + NONCE_WIRE_SIZE
           /\ ReqAd(w) = SubSeq(wk[w].skb.buf, 1, wk[w].opsize + NONCE_WIRE_SIZE)

\* a DATA_V1 packet with a payload was decapsulated
DataV1Decapsulated ==
    \E w \in Workers :
        /\ wk[w].dir = "dec" /\ wk[w].pc = "ret" /\ wk[w].ret = 0
        /\ wk[w].opsize = OVPN_OP_SIZE_V1 /\ wk[w].src.genuine
        /\ wk[w].src.pt /= << >> /\ SkbData(wk[w].skb) = wk[w].src.pt

\* the step in which ovpn_aead_decrypt of worker w runs up to its cipher request
DecBeginStep(w) == wk[w].pc = "held" /\ wk'[w].pc /= "held" /\ wk'[w].dir = "dec"

\* the opcode in the first byte of packet pkt, 0 for the empty packet
OpcodeOf(pkt) ==
    IF pkt = << >> THEN 0 ELSE pkt[1] \div (2 ^ OVPN_OPCODE_SHIFT)

\* header, packet id and tag of the variant packet pkt announces
MinLen(pkt) ==
    (IF OpcodeOf(pkt) = OVPN_DATA_V2 THEN 4 ELSE 1) + 4 + 16

\* C15: a packet whose opcode is neither DATA_V1 nor DATA_V2, or that is
\* shorter than header, packet id and tag of its variant, is refused with
\* -EINVAL before a cipher request exists, the buffer is left as it came
\* and no slot changes; a packet of exactly that length (no payload) with a
\* data opcode gets its cipher request.
MalformedRefusedBeforeCipher ==
    [][\A w \in Workers : DecBeginStep(w) =>
         LET pkt == wk'[w].skb.buf
             bad == \/ OpcodeOf(pkt) \notin {OVPN_DATA_V1, OVPN_DATA_V2}
                    \/ Len(pkt) < MinLen(pkt)
         IN  /\ bad =>
                  /\ wk'[w].ret = -EINVAL /\ wk'[w].pc = "ret"
                  /\ ~wk'[w].pending /\ wk'[w].req = NoReq
                  /\ wk'[w].skb = SkbOf(pkt, 0)
                  /\ slots' = slots /\ accepted' = accepted
             /\ (~bad /\ wk'[w].env = "ok") =>
                  /\ wk'[w].pending /\ wk'[w].pc = "dec_wait"
                  /\ wk'[w].req /= NoReq
                  /\ wk'[w].req.cryptlen = Len(pkt) - MinLen(pkt) + 16]_vars

\* a DATA_V2 packet one byte short of its tag was refused by a slot that has
\* accepted a packet, and the slot still has the replay state of that packet
ShortPacketRefused ==
    \E w \in Workers :
        /\ wk[w].dir = "dec" /\ wk[w].pc = "ret" /\ wk[w].ret = -EINVAL
        /\ wk[w].env = "ok"
        /\ OpcodeOf(wk[w].skb.buf) = OVPN_DATA_V2
        /\ Len(wk[w].skb.buf) = MinLen(wk[w].skb.buf) - 1
        /\ wk[w].skb.data = 1
        /\ slots[wk[w].ks].pid_recv.highest_seen > 0

\* C12: the nonce of an encapsulation is the 4-byte packet id followed by
\* the transmit nonce tail of the slot, 12 bytes that hold nothing of the
\* random fill; its first 4 bytes are the wire packet id and no other nonce
\* byte is on the wire; the nonce of a decapsulation is the wire packet id
\* followed by the receive nonce tail of the slot.
NonceIsPktidAndTail ==
    \A w \in Workers :
        /\ Built(w) =>
              /\ wk[w].req.iv = Htonl(wk[w].pktid) \o slots[wk[w].ks].nonce_tail_xmit
              /\ Len(wk[w].req.iv) * 8 = 96
              /\ WirePktid(w) = SubSeq(wk[w].req.iv, 1, NONCE_WIRE_SIZE)
              /\ SkbLen(wk[w].skb)
                    = OVPN_OP_SIZE_V2 + NONCE_WIRE_SIZE + auth_tag_size
                         + Len(wk[w].src.pt)
        /\ (wk[w].dir = "dec" /\ wk[w].req /= NoReq) =>
              /\ wk[w].req.iv
                    = SubSeq(wk[w].skb.buf, wk[w].opsize + 1,
                             wk[w].opsize + NONCE_WIRE_SIZE)
                         \o slots[wk[w].ks].nonce_tail_recv
              /\ Len(wk[w].req.iv) * 8 = 96

\* the slot of the remote end decapsulates a packet, built under a packet id
\* above 0, with the very nonce its encapsulation used
NonceRebuiltByReceiver ==
    \E w \in Workers : \E i \in wire :
        /\ wk[w].dir = "dec" /\ wk[w].pc = "dec_wait"
        /\ i.src = wk[w].src /\ i.pkt = SkbData(wk[w].skb)
        /\ wk[w].ks /= i.src.ks /\ i.src.id > 0
        /\ wk[w].req.iv = Htonl(i.src.id) \o slots[i.src.ks].nonce_tail_xmit

\* C14: an encapsulation that obtains a packet id moves the transmit counter
\* of its slot up by exactly one, and nothing else moves a counter: not the
\* failure of the cipher request, not the return of the call, not the
\* release of the slot; the ids issued on a slot never repeat.
PktidStaysConsumed ==
    /\ [][\A s \in SlotIds :
            \/ /\ slots[s].mem = "none"
               /\ slots'[s].pid_xmit = ovpn_pktid_xmit_init
            \/ /\ slots'[s].pid_xmit = slots[s].pid_xmit
               /\ taken'[s] = taken[s]
            \/ /\ slots'[s].pid_xmit.seq_num = slots[s].pid_xmit.seq_num + 1
               /\ taken'[s] = Append(taken[s], slots[s].pid_xmit.seq_num)
               /\ \E w \in Workers :
                     /\ EncBeginStep(w) /\ wk[w].ks = s
                     /\ wk'[w].pktid = slots[s].pid_xmit.seq_num]_vars
    /\ [](\A s \in SlotIds :
            /\ Len(taken[s]) = slots[s].pid_xmit.seq_num
            /\ \A i \in 1..Len(taken[s]) : taken[s][i] = i - 1)
    /\ [](\A w \in Workers :
            (wk[w].dir = "enc" /\ wk[w].req /= NoReq) =>
               slots[wk[w].ks].pid_xmit.seq_num > wk[w].pktid)

\* the cipher request of an encapsulation failed, and a later encapsulation
\* on the same slot holds the next packet id
IdOfFailedCallNotReused ==
    \E w1, w2 \in Workers :
        /\ wk[w1].dir = "enc" /\ wk[w1].pc = "ret" /\ wk[w1].ret = -ENOMEM
        /\ wk[w1].req /= NoReq
        /\ wk[w2].dir = "enc" /\ wk[w2].pc = "enc_wait"
        /\ wk[w2].ks = wk[w1].ks
        /\ wk[w2].pktid = wk[w1].pktid + 1

\* C19: an encapsulation that fails in the buffer and allocation calls that
\* precede the packet id returns their error, builds nothing, leaves the
\* buffer as it came and leaves every slot, its transmit counter included,
\* as it was.
EarlyFailureTakesNoId ==
    [][\A w \in Workers :
         (EncBeginStep(w) /\ wk'[w].env /= "ok") =>
            /\ wk'[w].ret = EncEnvRet(wk'[w].env) /\ wk'[w].ret < 0
            /\ wk'[w].pc = "ret" /\ ~wk'[w].pending /\ wk'[w].req = NoReq
            /\ SkbData(wk'[w].skb) = wk'[w].src.pt
            /\ slots' = slots
            /\ taken' = taken]_vars

\* an encapsulation failed for want of a cipher request on a slot that has
\* issued packet ids, and the counter stands where the last id left it
EarlyFailureAfterIds ==
    \E w \in Workers :
        /\ wk[w].dir = "enc" /\ wk[w].pc = "ret" /\ wk[w].env = "nomem"
        /\ wk[w].ret = -ENOMEM
        /\ slots[wk[w].ks].pid_xmit.seq_num = 2
        /\ taken[wk[w].ks] = <<0, 1>>

\* worker w has returned from a decapsulation whose packet passed the cipher
Authenticated(w) ==
    wk[w].dir = "dec" /\ wk[w].pc = "ret" /\ wk[w].ret \in {0, -EEXIST}

\* C16: with several workers decapsulating on one slot no update of the
\* replay window is lost: of two decapsulations that carry the same
\* authenticated packet id at most one returns 0, the step that accepts an
\* id leaves it marked, and every id accepted so far that the window still
\* covers is marked in it, whichever worker accepted it.
WindowUpdatesNotLost ==
    /\ [](\A w1, w2 \in Workers :
            (w1 /= w2 /\ Authenticated(w1) /\ Authenticated(w2)
               /\ wk[w1].ks = wk[w2].ks /\ wk[w1].pktid = wk[w2].pktid) =>
               ~(wk[w1].ret = 0 /\ wk[w2].ret = 0))
    /\ [](\A s \in SlotIds : \A id \in 0..PktidMax :
            accepted[s][id] >= 1 =>
               LET pr == slots[s].pid_recv
               IN  /\ pr.highest_seen >= id
                   /\ pr.highest_seen - id < ReplayWindow =>
                         pr.window[pr.highest_seen - id])
    /\ [][\A w \in Workers :
            (DecCompleteStep(w) /\ wk'[w].ret = 0) =>
               LET s  == wk[w].ks
                   id == wk'[w].pktid
                   pr == slots'[s].pid_recv
               IN  /\ accepted[s][id] = 0 /\ accepted'[s][id] = 1
                   /\ pr.highest_seen >= id
                   /\ pr.window[pr.highest_seen - id]
                   /\ pr.highest_seen >= slots[s].pid_recv.highest_seen]_vars

\* two workers have decapsulated the same packet on one slot: one was
\* accepted, the other refused as a replay
OneOfTwoAccepted ==
    \E w1, w2 \in Workers :
        /\ w1 /= w2 /\ Authenticated(w1) /\ Authenticated(w2)
        /\ wk[w1].src.genuine /\ wk[w1].src = wk[w2].src
        /\ wk[w1].ks = wk[w2].ks /\ wk[w1].pktid = wk[w2].pktid
        /\ wk[w1].ret = 0 /\ wk[w2].ret = -EEXIST

\* a bind can still be allocated
BindLeft == \E n \in BindIds : binds[n].mem = "none"

\* C17: peer->lock is held inside the pointer swap only: it is free when
\* the old bind is handed to call_rcu and when ovpn_bind_reset has returned.
\* The writer never waits for a reader: with readers at any point of their
\* read-side sections the swap can be made and the call that follows it can
\* return.  No reader waits for the writer: wherever the writer stands, a
\* reader can enter its section, read the pointer and leave.
RebindNeverWaits ==
    /\ ~bw.lock
    /\ bw.pc = "swapped" => ENABLED BindResetCallRcu
    /\ (bw.pc = "idle" /\ BindLeft) =>
          \A ss \in SockAddrs, env \in BindEnv : ENABLED BindResetSwap(ss, env)
    /\ \A r \in Readers :
          /\ rd[r].pc = "out" => ENABLED RcuReadLock(r)
          /\ rd[r].pc = "in" => ENABLED RcuDereference(r)
          /\ rd[r].pc = "got" => ENABLED RcuReadUnlock(r)

\* a reader still sits on the first bind, which is not freed, after the
\* writer has rebound twice more and returned
WriterDoneReaderStillInside ==
    \E r \in Readers :
        /\ rd[r].pc = "got" /\ rd[r].bind = 1
        /\ binds[1].mem = "alloc"
        /\ peer_bind = 3 /\ bw.pc = "idle"
        /\ \E cb \in rcu_cbs : cb.bind = 1 /\ r \in cb.waitfor

\* C18: a rebind to an address whose family is neither AF_INET nor AF_INET6,
\* or that fails validation, ends with the error and allocates no bind: the
\* binds, the peer's current bind, the queued callbacks and the readers are
\* as before; only an address of a supported family that passed validation
\* is ever installed.
BadAddressChangesNothing ==
    /\ [][(bw.pc = "idle" /\ bw'.pc /= "idle") =>
            /\ bw'.pc \in {"failed", "swapped"}
            /\ (bw'.family \notin {AF_INET, AF_INET6} \/ bw'.env = "invalid") =>
                  /\ bw'.pc = "failed"
                  /\ bw'.err = (IF bw'.family \notin {AF_INET, AF_INET6}
                                THEN -EAFNOSUPPORT ELSE -EINVAL)
            /\ bw'.pc = "failed" =>
                  /\ bw'.err < 0 /\ bw'.old = 0
                  /\ binds' = binds /\ peer_bind' = peer_bind
                  /\ rcu_cbs' = rcu_cbs /\ rd' = rd]_vars
    /\ [][(bw.pc = "failed" /\ bw' /= bw) =>
            /\ bw' = IdleWriter
            /\ binds' = binds /\ peer_bind' = peer_bind
            /\ rcu_cbs' = rcu_cbs]_vars
    /\ [](\A b \in BindIds :
            binds[b].mem /= "none" => binds[b].family \in {AF_INET, AF_INET6})

\* an address of an unsupported family was refused while the peer has a
\* bind, a reader holds it and an older bind waits for its release
BadFamilyRefused ==
    /\ bw.pc = "failed" /\ bw.err = -EAFNOSUPPORT
    /\ peer_bind /= 0 /\ binds[peer_bind].mem = "alloc"
    /\ \E r \in Readers : rd[r].pc = "got" /\ rd[r].bind = peer_bind
    /\ rcu_cbs /= {}
    /\ Cardinality({b \in BindIds : binds[b].mem /= "none"}) = 2

\* the callbacks queued for bind b
Queued(b) == {cb \in rcu_cbs : cb.bind = b}

\* C20: over any sequence of rebinds, a bind that was replaced is handed to
\* call_rcu once, by the rebind that replaced it, and freed once, when its
\* callback runs; the peer's current bind is neither queued nor freed; no
\* bind is left over (an allocated bind is the current one, the one the
\* writer is about to queue, or a queued one); a rebind that found no bind
\* queues nothing; and every queued bind is freed in the end.
ReplacedBindFreedOnce ==
    /\ [](\A b \in BindIds :
            /\ binds[b].kfrees <= 1
            /\ Cardinality(Queued(b)) <= 1
            /\ binds[b].mem = "freed" => (binds[b].kfrees = 1 /\ Queued(b) = {})
            /\ b = peer_bind => (binds[b].mem = "alloc" /\ Queued(b) = {})
            /\ binds[b].mem = "alloc" =>
                  \/ b = peer_bind
                  \/ bw.pc = "swapped" /\ bw.old = b /\ Queued(b) = {}
                  \/ Cardinality(Queued(b)) = 1 /\ ~(bw.pc = "swapped" /\ bw.old = b))
    /\ [][\A b \in BindIds :
            /\ (Queued(b) = {} /\ Queued(b)' /= {}) =>
                  /\ bw.pc = "swapped" /\ bw.old = b /\ bw'.pc = "idle"
                  /\ b /= peer_bind /\ binds[b].mem = "alloc"
            /\ (bw.pc = "swapped" /\ bw'.pc = "idle") =>
                  IF bw.old = 0 THEN rcu_cbs' = rcu_cbs
                  ELSE bw.old = b => Cardinality(Queued(b)') = 1
            /\ binds'[b].kfrees /= binds[b].kfrees =>
                  /\ binds'[b].kfrees = 1
                  /\ \E cb \in Queued(b) : cb.waitfor = {}
                  /\ Queued(b)' = {}]_vars
    /\ \A b \in BindIds : (Queued(b) /= {}) ~> (binds[b].mem = "freed")

\* every bind but the current one has been replaced, queued and freed, and
\* the first rebind, which found no bind, queued nothing
AllReplacedBindsFreed ==
    /\ peer_bind = MaxBinds /\ bw.pc = "idle" /\ rcu_cbs = {}
    /\ \A b \in BindIds :
          IF b = peer_bind THEN binds[b].mem = "alloc" /\ binds[b].kfrees = 0
          ELSE binds[b].mem = "freed" /\ binds[b].kfrees = 1

\* what the inputs of a creation make of it, read off the configuration
\* and the environment: which allocations were made, and whether any step
\* was refused
SlotAllocated(r) ==
    r.kc.cipher_alg = OVPN_CIPHER_ALG_AES_GCM /\ r.env.kmalloc = "ok"

EncAllocated(r) == SlotAllocated(r) /\ r.env.enc /= "alloc"

EncKeyed(r) ==
    EncAllocated(r) /\ r.env.enc = "ok" /\ r.kc.ekey_size \in {16, 24, 32}

DecAllocated(r) == EncKeyed(r) /\ r.env.dec /= "alloc"

DecKeyed(r) ==
    DecAllocated(r) /\ r.env.dec = "ok" /\ r.kc.dkey_size \in {16, 24, 32}

AllocationFailed(r) ==
    \/ r.kc.cipher_alg = OVPN_CIPHER_ALG_AES_GCM /\ r.env.kmalloc = "nomem"
    \/ SlotAllocated(r) /\ r.env.enc = "alloc"
    \/ EncKeyed(r) /\ r.env.dec = "alloc"

\* the slot is complete: both ciphers live and keyed with a 16-byte tag,
\* both nonce tails installed (with the 4-byte packet id, a 12-byte nonce),
\* packet-id state fresh in both directions, one reference
FullyBuilt(r) ==
    /\ r.ks.mem = "alloc" /\ r.ks.kfrees = 0 /\ r.ks.refcount = 1
    /\ r.ks.encrypt = [key |-> r.kc.ekey, authsize |-> 16,
                       state |-> "live", frees |-> 0]
    /\ r.ks.decrypt = [key |-> r.kc.dkey, authsize |-> 16,
                       state |-> "live", frees |-> 0]
    /\ r.ectx = r.ks.encrypt /\ r.dctx = r.ks.decrypt
    /\ r.ks.nonce_tail_xmit = r.kc.etail /\ r.ks.nonce_tail_recv = r.kc.dtail
    /\ Len(r.ks.nonce_tail_xmit) + NONCE_WIRE_SIZE = 12
    /\ Len(r.ks.nonce_tail_recv) + NONCE_WIRE_SIZE = 12
    /\ r.ks.pid_xmit = [seq_num |-> 0]
    /\ r.ks.pid_recv.highest_seen = 0
    /\ \A i \in DOMAIN r.ks.pid_recv.window : ~r.ks.pid_recv.window[i]
    /\ r.ks.key_id = r.kc.key_id
    /\ [r.ks EXCEPT !.remote_peer_id = r.kc.peer_id]
          = ovpn_aead_crypto_key_slot_init(r.kc)

\* nothing is returned and whatever was allocated has been freed once
ReleasedOnce(r) ==
    /\ r.ks.mem = (IF SlotAllocated(r) THEN "freed" ELSE "none")
    /\ r.ks.kfrees = (IF SlotAllocated(r) THEN 1 ELSE 0)
    /\ r.ectx.state = (IF EncAllocated(r) THEN "freed" ELSE "null")
    /\ r.ectx.frees = (IF EncAllocated(r) THEN 1 ELSE 0)
    /\ r.dctx.state = (IF DecAllocated(r) THEN "freed" ELSE "null")
    /\ r.dctx.frees = (IF DecAllocated(r) THEN 1 ELSE 0)
    /\ r.ks.encrypt.frees <= 1 /\ r.ks.decrypt.frees <= 1
    /\ r.ks.encrypt.state /= "live" /\ r.ks.decrypt.state /= "live"

\* a creation that failed installs nothing in the peer
FailureInstallsNothing ==
    [][(kres' /= kres /\ kres'.ret < 0) =>
          (slots' = slots /\ primary' = primary)]_vars

BuiltOrReleased(errors) ==
    /\ kres.ret \in {0} \cup errors
    /\ IF kres.ret = 0 THEN FullyBuilt(kres) ELSE ReleasedOnce(kres)
    /\ kres.ret = 0 <=>
          /\ DecKeyed(kres)
          /\ Len(kres.kc.etail) = NONCE_TAIL_SIZE
          /\ Len(kres.kc.dtail) = NONCE_TAIL_SIZE
    /\ kres.ret = -EOPNOTSUPP <=> kres.kc.cipher_alg /= OVPN_CIPHER_ALG_AES_GCM
    /\ kres.ret = -ENOMEM <=> AllocationFailed(kres)

=============================================================================
